---- MODULE Spec2Model ----
\* Agent Control Plane gateway: the invocation engine (cmd/gateway/main.py),
\* its job store and audit log (cmd/gateway/database.py), the agent registry
\* (cmd/gateway/docker_discovery.py) and the activity map (cmd/gateway/lifecycle.py).
\*
\* One invocation is one request r; uuid.uuid4() gives every request its own
\* thread_id, written Uuid(r).  A handler is cut into steps at its awaits on the
\* store and on the agent, so that the store is seen after every single write.
EXTENDS Integers, Sequences, FiniteSets, TLC

\* ------------------------------------------------------------------ bounds
MaxReq == 1        \* invocations in one behaviour
MaxClock == 1      \* readings of the gateway clock are 0..MaxClock
MaxDbFaults == 1   \* store operations that may raise in one behaviour
MaxPatternLen == 3 \* characters of an allowlist pattern put to the matchers
MaxUrlLen == 3     \* characters of a URL put to the matchers
MaxUploads == 2    \* uploaded files of one multipart request
MaxEntries == 4    \* rows of the audit table put to the verifier
MaxTunnelBytes == 2 \* bytes each end of a tunnel sends

Requests == 1..MaxReq

\* ------------------------------------------------------------------ values
\* Python values as tagged records.
None_ == [kind |-> "None"]
Str(s) == [kind |-> "str", s |-> s]
Dict(f) == [kind |-> "dict", v |-> f]
List_ == [kind |-> "list", v |-> <<>>]    \* the empty list
Datetime(t) == [kind |-> "datetime", t |-> t]
Uuid(r) == [kind |-> "uuid", n |-> r]

\* json.dumps(v): a str holding the JSON text of v (never v itself).
json_dumps(v) == [kind |-> "str", json |-> v]

\* `x if x else None`: None, the empty dict and the empty list are falsy.
OrNone(x) == IF x = None_ \/ x = Dict(<<>>) \/ x = List_ THEN None_ ELSE x

\* models.py
INV_STATE_QUEUED == "queued"
INV_STATE_RUNNING == "running"
INV_STATE_COMPLETED == "completed"
INV_STATE_FAILED == "failed"

\* main.py: MAX_MB = int(os.getenv("ACP_MAX_UPLOAD_MB", "200"))
MAX_MB == 200
MAX_BYTES == MAX_MB * 1024 * 1024

\* ------------------------------------------------------------------ inputs
AgentNames == {"foo", "nope"}
\* Names for which an agent-labelled container exists on the host.
ContainerNames == {"foo"}
AuthHeaders == {<<"Bearer ", "tok">>, <<"", "">>}
\* auth.startswith("Bearer ")
StartsWithBearer(auth) == auth[1] = "Bearer "
Payloads == {Dict([today |-> "2025-01-01"]), Dict(<<>>)}
ProgressValues == {Dict([pct |-> "50"])}

\* Response bodies of an agent: the parsed JSON value (or NotJson) and the
\* length of the text.
NotJson == [kind |-> "invalid"]
BodyObj == [parsed |-> Dict([ok |-> "true"]), len |-> 12]
BodyObjTid == [parsed |-> Dict([ok |-> "true", thread_id |-> Str("agent-tid")]), len |-> 40]
BodyNull == [parsed |-> None_, len |-> 4]
BodyList == [parsed |-> List_, len |-> 2]
BodyText == [parsed |-> NotJson, len |-> 9]
BodyLong == [parsed |-> NotJson, len |-> 501]
Bodies == {BodyObj, BodyObjTid, BodyNull, BodyList, BodyText, BodyLong}

HttpResponse(status, body) == [exc |-> FALSE, status_code |-> status, body |-> body]
TransportError(msg) == [exc |-> TRUE, msg |-> msg]
\* What cli.post(...) can give: a response or an exception.
AgentOutcomes ==
    {HttpResponse(200, b) : b \in Bodies}
    \cup {HttpResponse(201, BodyObj)}
    \cup {HttpResponse(403, BodyText)}
    \cup {HttpResponse(500, b) : b \in {BodyObj, BodyLong}}
    \cup {TransportError("connect failed")}

\* r.text and a slice r.text[:k] of it.
Text(body) == [kind |-> "str", of |-> body.parsed, len |-> body.len]
Slice(text, k) == [text EXCEPT !.len = IF text.len < k THEN text.len ELSE k]

\* Uploaded files: the client's file name, as its components between "/", and
\* the data, which its length in bytes stands for (files of one name differ in
\* length).
UploadFile(name, size) == [filename |-> name, size |-> size]
UploadFiles ==
    {UploadFile(<<"a.txt">>, MAX_BYTES), UploadFile(<<"b.bin">>, MAX_BYTES + 1),
     UploadFile(<<"..">>, MAX_BYTES + 1), UploadFile(<<"x", "a.txt">>, 5),
     UploadFile(<<"c.csv">>, 0)}
RECURSIVE SeqsUpTo(_, _)
SeqsUpTo(S, n) ==
    IF n = 0 THEN {<<>>}
    ELSE LET shorter == SeqsUpTo(S, n - 1)
         IN shorter \cup {Append(s, x) : s \in {t \in shorter : Len(t) = n - 1}, x \in S}
UploadLists == SeqsUpTo(UploadFiles, MaxUploads)

VARIABLES
    DB_POOL,        \* database.DB_POOL is set (durable store) or None (in-memory)
    invocations,    \* the invocations table: thread_id -> row
    JOBS,           \* database.JOBS: thread_id -> dict
    audit_log,      \* the audit_log table, in insertion order
    AGENTS,         \* docker_discovery.AGENTS: name -> target URL
    AGENT_IP_MAP,   \* docker_discovery.AGENT_IP_MAP: container IP -> name
    LAST_SEEN,      \* lifecycle.LAST_SEEN: name -> datetime
    client,         \* docker_discovery.client / api_client are set
    containers,     \* the host: container name -> "running" | "exited"
    artifacts,      \* files under /artifacts/<thread_id>/in, per request
    clock,          \* datetime.datetime.now(datetime.timezone.utc)
    pc,             \* position of each invocation (handler, then worker)
    req,            \* the handler's locals: agent, auth, payload, sync_flag
    local,          \* r / resp_json / parsed / e of the forwarding step
    reply,          \* what the caller of POST /invoke received
    oversized,      \* the request carried a file to stage larger than MAX_BYTES
    uploaded,       \* the handler's uploaded_files, per request
    dirs,           \* directories made under /artifacts/<thread_id>, per request
    EGRESS_ALLOWLIST, \* proxy.EGRESS_ALLOWLIST and egress.EGRESS_ALLOWLIST: name -> patterns
    decided,        \* the last URL put to _is_allowed and is_allowed, with their results
    conn,           \* the last connection the proxy handled: request, response, upstream
    all_entries,    \* the rows of audit_log as the verifier fetches them
    report,         \* what GET /audit/integrity-check last returned
    CONFIGURED_AGENT_NAMES, \* docker_discovery.CONFIGURED_AGENT_NAMES
    IDLE_TIMEOUTS,  \* egress.IDLE_TIMEOUTS: name -> minutes
    called,         \* the last call put to the registry, the reaper or the job store
    lifespan,       \* the application: its background tasks and what it holds open
    answered,       \* what the agent answered to the forwarded request
    dbFaults        \* store operations that raised so far

vars == <<DB_POOL, invocations, JOBS, audit_log, AGENTS, AGENT_IP_MAP, LAST_SEEN,
          client, containers, artifacts, clock, pc, req, local, reply, oversized,
          uploaded, dirs, EGRESS_ALLOWLIST, decided, conn, all_entries, report,
          CONFIGURED_AGENT_NAMES, IDLE_TIMEOUTS, called, lifespan, answered,
          dbFaults>>

registryVars == <<AGENTS, AGENT_IP_MAP, client, containers>>
storeVars == <<invocations, JOBS, audit_log>>
uploadVars == <<uploaded, dirs>>
egressVars == <<EGRESS_ALLOWLIST, decided, conn>>
verifierVars == <<all_entries, report>>
configVars == <<CONFIGURED_AGENT_NAMES, IDLE_TIMEOUTS>>

\* ------------------------------------------------------------------ job store
Columns == {"thread_id", "agent", "user_token", "state", "created_at", "started_at",
            "ended_at", "payload", "result", "error", "progress"}
JsonbColumns == {"payload", "result", "error", "progress"}

\* A keyword-argument dict with one, two or three entries.
Fields1(k1, v1) == [k \in {k1} |-> v1]
Fields2(k1, v1, k2, v2) == [k \in {k1, k2} |-> IF k = k1 THEN v1 ELSE v2]
Fields3(k1, v1, k2, v2, k3, v3) ==
    [k \in {k1, k2, k3} |-> IF k = k1 THEN v1 ELSE IF k = k2 THEN v2 ELSE v3]

IsStr(v) == v.kind = "str"
\* init_pool registers no type codec, so the driver takes a JSONB parameter as
\* JSON text: None or a str passes, a dict or a list is rejected (DataError).
DbParamsOk(fields) ==
    \A k \in DOMAIN fields \cap JsonbColumns : fields[k] = None_ \/ IsStr(fields[k])

\* job.get(k) on what get_job returned.
Get(job, k) == IF k \in DOMAIN job THEN job[k] ELSE None_

\* get_job: the row (JSONB columns come back as text) or the dict, else None.
get_job(thread_id) ==
    IF DB_POOL
    THEN IF thread_id \in DOMAIN invocations THEN invocations[thread_id] ELSE None_
    ELSE IF thread_id \in DOMAIN JOBS THEN JOBS[thread_id] ELSE None_

\* UPDATE invocations SET k = v, ... WHERE thread_id = $1
UpdatedRow(row, fields) ==
    [c \in Columns |-> IF c \in DOMAIN fields THEN fields[c] ELSE row[c]]
\* JOBS[thread_id].update(fields)
UpdatedDict(job, fields) ==
    [k \in DOMAIN job \cup DOMAIN fields |-> IF k \in DOMAIN fields THEN fields[k] ELSE job[k]]

\* update_job_record raises: the durable store failed (ok = FALSE) or rejected
\* a parameter.  The in-memory branch never raises.
UpdateRaises(fields, ok) == DB_POOL /\ ~(ok /\ DbParamsOk(fields))

update_job_record(thread_id, fields, ok) ==
    IF DB_POOL
    THEN /\ invocations' =
              IF ~UpdateRaises(fields, ok) /\ thread_id \in DOMAIN invocations
              THEN [invocations EXCEPT ![thread_id] = UpdatedRow(@, fields)]
              ELSE invocations
         /\ JOBS' = JOBS
    ELSE /\ JOBS' =
              LET job == IF thread_id \in DOMAIN JOBS THEN JOBS[thread_id]
                         ELSE Fields1("thread_id", thread_id)
              IN [k \in DOMAIN JOBS \cup {thread_id} |->
                    IF k = thread_id THEN UpdatedDict(job, fields) ELSE JOBS[k]]
         /\ invocations' = invocations

\* The row / dict insert_job_row writes.
InsertedRow(thread_id, agent, user_token, payload, now) ==
    [c \in Columns |->
        CASE c = "thread_id" -> thread_id
          [] c = "agent" -> Str(agent)
          [] c = "user_token" -> Str(user_token)
          [] c = "state" -> Str(INV_STATE_QUEUED)
          [] c = "created_at" -> Datetime(now)
          [] c = "payload" -> IF OrNone(payload) = None_ THEN None_ ELSE json_dumps(payload)
          [] OTHER -> None_]
InsertedDict(thread_id, agent, user_token, payload) ==
    [thread_id |-> thread_id, agent |-> Str(agent), user_token |-> Str(user_token),
     state |-> Str(INV_STATE_QUEUED), payload |-> payload]

\* insert_job_row raises when the durable store fails or the key exists.
InsertRaises(thread_id, ok) == DB_POOL /\ (~ok \/ thread_id \in DOMAIN invocations)

insert_job_row(thread_id, agent, user_token, payload, ok) ==
    IF DB_POOL
    THEN /\ invocations' =
              IF InsertRaises(thread_id, ok) THEN invocations
              ELSE [k \in DOMAIN invocations \cup {thread_id} |->
                      IF k = thread_id
                      THEN InsertedRow(thread_id, agent, user_token, payload, clock)
                      ELSE invocations[k]]
         /\ JOBS' = JOBS
    ELSE /\ JOBS' = [k \in DOMAIN JOBS \cup {thread_id} |->
                      IF k = thread_id
                      THEN InsertedDict(thread_id, agent, user_token, payload)
                      ELSE JOBS[k]]
         /\ invocations' = invocations

\* ------------------------------------------------------------------ audit log
RequestEntry(user_token, thread_id, agent, payload) ==
    [user_token |-> Str(user_token), thread_id |-> thread_id, actor |-> "gateway",
     action |-> "invoke_request", resource |-> <<agent, "/invoke">>, status_code |-> 0,
     payload |-> IF OrNone(payload) = None_ THEN None_ ELSE json_dumps(payload),
     error_msg |-> None_]
\* A response entry written in the gateway's name.
ResponseEntryByGateway(user_token, thread_id, agent, status_code, payload, error_msg) ==
    [user_token |-> Str(user_token), thread_id |-> thread_id, actor |-> "gateway",
     action |-> "invoke_response", resource |-> <<agent, "/invoke">>,
     status_code |-> status_code,
     payload |-> IF OrNone(payload) = None_ THEN None_ ELSE json_dumps(payload),
     error_msg |-> error_msg]
ResponseEntry(user_token, thread_id, agent, status_code, payload, error_msg) ==
    [user_token |-> Str(user_token), thread_id |-> thread_id, actor |-> agent,
     action |-> "invoke_response", resource |-> <<agent, "/invoke">>,
     status_code |-> status_code,
     payload |-> IF OrNone(payload) = None_ THEN None_ ELSE json_dumps(payload),
     error_msg |-> error_msg]

\* The INSERT runs only with a pool; an exception from it is logged and dropped.
audit_insert(entry, ok) ==
    audit_log' = IF DB_POOL /\ ok THEN Append(audit_log, entry) ELSE audit_log
audit_invoke_request(user_token, thread_id, agent, payload, ok) ==
    audit_insert(RequestEntry(user_token, thread_id, agent, payload), ok)
audit_invoke_response(user_token, thread_id, agent, status_code, payload, error_msg, ok) ==
    audit_insert(ResponseEntry(user_token, thread_id, agent, status_code, payload, error_msg), ok)

\* Outcomes of one operation on the durable store: TRUE = it went through.
DbOutcomes == IF DB_POOL /\ dbFaults < MaxDbFaults THEN BOOLEAN ELSE {TRUE}
CountFault(ok) == dbFaults' = IF ok THEN dbFaults ELSE dbFaults + 1

\* ------------------------------------------------------------------ registry
ContainerIP(name) == IF name = "foo" THEN "172.18.0.2" ELSE ""
Url(host) == [host |-> host, port |-> "8000", path |-> "/invoke"]
EmptyMap == [x \in {} |-> ""]

\* _get_agent_containers_fast: the listing, or [] when the query raises.
AgentContainersFast(hostUp, cs) == IF hostUp THEN DOMAIN cs ELSE {}

\* A refresh that takes every listed container, whatever its state.
RefreshedAll(hostUp, cs, agents, ipmap) ==
    IF ~client THEN <<agents, ipmap>>
    ELSE LET listed == AgentContainersFast(hostUp, cs)
             withIp == {n \in listed : ContainerIP(n) # ""}
         IN <<[n \in listed |-> IF ContainerIP(n) # "" THEN Url(ContainerIP(n)) ELSE Url(n)],
              [ip \in {ContainerIP(n) : n \in withIp} |->
                  CHOOSE n \in withIp : ContainerIP(n) = ip]>>
\* refresh_agents: the new <<AGENTS, AGENT_IP_MAP>>.
Refreshed(hostUp, cs, agents, ipmap) ==
    IF ~client THEN <<agents, ipmap>>
    ELSE LET running == {n \in AgentContainersFast(hostUp, cs) : cs[n] = "running"}
             discovered == [n \in running |->
                               IF ContainerIP(n) # "" THEN Url(ContainerIP(n)) ELSE Url(n)]
             withIp == {n \in running : ContainerIP(n) # ""}
             ip_map == [ip \in {ContainerIP(n) : n \in withIp} |->
                           CHOOSE n \in withIp : ContainerIP(n) = ip]
         IN <<discovered, ip_map>>

\* A call that answers True only when it had to start the container.
EnsureAgentRunningOnce(agent, hostUp, up, cs, agents) ==
    IF ~client THEN <<agent \in DOMAIN agents, cs>>
    ELSE IF ~hostUp THEN <<FALSE, cs>>
    ELSE IF agent \in DOMAIN cs /\ cs[agent] = "running" THEN <<FALSE, cs>>
    ELSE IF agent \in DOMAIN cs
    THEN <<TRUE, [cs EXCEPT ![agent] = IF up THEN "running" ELSE "exited"]>>
    ELSE <<FALSE, cs>>
\* ensure_agent_running: <<returned value, containers afterwards>>.  hostUp: the
\* queries to the host go through (an exception gives False); up: the container
\* that container.start() started is running when time.sleep(2) is over
\* (nothing looks at it again before `return True`).
EnsureAgentRunning(agent, hostUp, up, cs, agents) ==
    IF ~client THEN <<agent \in DOMAIN agents, cs>>
    ELSE IF ~hostUp THEN <<FALSE, cs>>
    ELSE IF agent \in DOMAIN cs /\ cs[agent] = "running" THEN <<TRUE, cs>>
    ELSE IF agent \in DOMAIN cs
    THEN <<TRUE, [cs EXCEPT ![agent] = IF up THEN "running" ELSE "exited"]>>
    ELSE <<FALSE, cs>>

\* ------------------------------------------------------------------ egress allowlist
\* Patterns and URLs are sequences of one-character strings.
\* pattern.replace("*", ".*")
RECURSIVE ReplaceStar(_)
ReplaceStar(pattern) ==
    IF pattern = <<>> THEN <<>>
    ELSE (IF Head(pattern) = "*" THEN <<".", "*">> ELSE <<Head(pattern)>>)
         \o ReplaceStar(Tail(pattern))

\* pattern.replace(".", r"\.")
RECURSIVE EscapeDot(_)
EscapeDot(pattern) ==
    IF pattern = <<>> THEN <<>>
    ELSE (IF Head(pattern) = "." THEN <<"\\", ".">> ELSE <<Head(pattern)>>)
         \o EscapeDot(Tail(pattern))

Quantifiers == {"*", "+", "?"}
ReError == [ok |-> FALSE, items |-> <<>>]
Item(any, c, q) == [any |-> any, c |-> c, q |-> q]

\* re's parse of a regular expression made of literals, ".", "\" escapes, "^",
\* "(" and quantifiers: the items from position i on, or ReError where
\* re.compile raises (nothing to repeat, multiple repeat, bad escape, missing
\* parenthesis).  A "+" right after a quantifier raises before Python 3.11
\* and is a possessive quantifier from 3.11 on: MatchPatterns has no such
\* pattern.
RECURSIVE ReParse(_, _)
ReParse(regex, i) ==
    IF i > Len(regex) THEN [ok |-> TRUE, items |-> <<>>]
    ELSE LET c == regex[i]
             escaped == c = "\\"
             atomEnd == IF escaped THEN i + 1 ELSE i
             q == IF atomEnd + 1 <= Len(regex) /\ regex[atomEnd + 1] \in Quantifiers
                  THEN regex[atomEnd + 1] ELSE "1"
             next == IF q = "1" THEN atomEnd + 1 ELSE atomEnd + 2
             lazy == q # "1" /\ next <= Len(regex) /\ regex[next] = "?"
             stacked == q # "1" /\ next <= Len(regex) /\ regex[next] \in {"*", "+"}
             rest == ReParse(regex, IF lazy THEN next + 1 ELSE next)
         IN IF c \in Quantifiers \/ c \in {"(", ")"} THEN ReError
            ELSE IF escaped /\ i = Len(regex) THEN ReError
            ELSE IF stacked THEN ReError
            ELSE IF c = "^"
            THEN (IF q # "1" THEN ReError ELSE ReParse(regex, i + 1))
            ELSE IF ~rest.ok THEN ReError
            ELSE [ok |-> TRUE,
                  items |-> <<Item(c = ".", IF escaped THEN regex[i + 1] ELSE c, q)>>
                            \o rest.items]

Fits(item, ch) == item.any \/ item.c = ch

\* Whether items[i..] match url from position j on, the rest of url left over.
RECURSIVE MatchAt(_, _, _, _)
MatchAt(items, i, url, j) ==
    IF i > Len(items) THEN TRUE
    ELSE LET it == items[i]
             here == j <= Len(url) /\ Fits(it, url[j])
         IN CASE it.q = "1" -> here /\ MatchAt(items, i + 1, url, j + 1)
              [] it.q = "?" -> (here /\ MatchAt(items, i + 1, url, j + 1))
                               \/ MatchAt(items, i + 1, url, j)
              [] it.q = "*" -> MatchAt(items, i + 1, url, j)
                               \/ (here /\ MatchAt(items, i, url, j + 1))
              [] it.q = "+" -> here /\ (MatchAt(items, i + 1, url, j + 1)
                                        \/ MatchAt(items, i, url, j + 1))

\* re.match(regex, url): "match", "nomatch", or "raise" when compiling raises.
re_match(regex, url) ==
    LET parsed == ReParse(regex, 1)
    IN IF ~parsed.ok THEN "raise"
       ELSE IF MatchAt(parsed.items, 1, url, 1) THEN "match" ELSE "nomatch"

\* The loop over the patterns: "allow" at the first match, "deny" at the end,
\* "raise" at a pattern that does not compile.
RECURSIVE FirstMatch(_, _, _)
FirstMatch(regexes, i, url) ==
    IF i > Len(regexes) THEN "deny"
    ELSE LET m == re_match(regexes[i], url)
         IN IF m = "match" THEN "allow"
            ELSE IF m = "raise" THEN "raise"
            ELSE FirstMatch(regexes, i + 1, url)

\* EGRESS_ALLOWLIST.get(agent, [])
PatternsOf(agent) ==
    IF agent \in DOMAIN EGRESS_ALLOWLIST THEN EGRESS_ALLOWLIST[agent] ELSE <<>>

\* proxy._is_allowed
ProxyRegex(pattern) == ReplaceStar(pattern)
_is_allowed(agent, url) ==
    LET patterns == PatternsOf(agent)
    IN FirstMatch([i \in 1..Len(patterns) |-> ProxyRegex(patterns[i])], 1, url)

\* egress.is_allowed
EgressRegex(pattern) == <<"^">> \o ReplaceStar(EscapeDot(pattern))
is_allowed(agent, url) ==
    LET patterns == PatternsOf(agent)
    IN FirstMatch([i \in 1..Len(patterns) |-> EgressRegex(patterns[i])], 1, url)

\* Patterns and URLs put to the two matchers.
PatternAlphabet == {"a", ".", "*", "+", "("}
UrlAlphabet == {"a", "b", ".", "+"}
StackedPlus(p) == \E i \in 2..Len(p) : p[i] = "+" /\ p[i - 1] \in {"*", "+"}
MatchPatterns == {p \in SeqsUpTo(PatternAlphabet, MaxPatternLen) : ~StackedPlus(p)}
MatchUrls == SeqsUpTo(UrlAlphabet, MaxUrlLen)

\* ------------------------------------------------------------------ initial state
NoReq == [agent |-> "", auth |-> <<"", "">>, payload |-> None_, sync_flag |-> FALSE]
NoLocal == [kind |-> "none"]
NoReply == [status |-> 0, body |-> None_]
NoAnswer == [exc |-> FALSE, status_code |-> 0, body |-> [parsed |-> NotJson, len |-> 0]]
NoDecision == [url |-> <<>>, proxy |-> "", egress |-> ""]
NoConn == [handled |-> FALSE]
NoReport == [status |-> 0]
NoCall == [op |-> "none"]

\* The application once its startup handlers ran: init_db made the pool or
\* not and started the proxy task, startup_event made the two periodic tasks
\* (idle_reaper returns at once without a Docker client).
Started ==
    [phase |-> "serving",
     tasks |-> IF client THEN {"watch_docker", "idle_reaper"} ELSE {"watch_docker"},
     DB_POOL |-> IF DB_POOL THEN "open" ELSE "none",
     PROXY_SERVER |-> "listening",
     client |-> IF client THEN "open" ELSE "none",
     api_client |-> IF client THEN "open" ELSE "none"]

\* The host at import: the Docker clients are made or not, and the containers
\* are one of `hosts`.
InitHost(hosts) ==
    /\ client \in BOOLEAN
    /\ lifespan = Started
    /\ containers \in hosts
    \* module import runs refresh_agents() once (main.py line 38)
    /\ \E hostUp \in BOOLEAN :
          LET m == Refreshed(hostUp, containers, EmptyMap, EmptyMap)
          IN AGENTS = m[1] /\ AGENT_IP_MAP = m[2]

InitEngine ==
    /\ DB_POOL \in BOOLEAN
    /\ invocations = <<>>
    /\ JOBS = <<>>
    /\ audit_log = <<>>
    /\ LAST_SEEN = <<>>
    /\ artifacts = [r \in Requests |-> <<>>]
    /\ clock = 0
    /\ pc = [r \in Requests |-> "idle"]
    /\ req = [r \in Requests |-> NoReq]
    /\ local = [r \in Requests |-> NoLocal]
    /\ reply = [r \in Requests |-> NoReply]
    /\ oversized = [r \in Requests |-> FALSE]
    /\ uploaded = [r \in Requests |-> <<>>]
    /\ dirs = [r \in Requests |-> {}]
    /\ answered = [r \in Requests |-> NoAnswer]
    /\ dbFaults = 0

InitGateway == InitEngine /\ InitHost([ContainerNames -> {"running", "exited"}])

\* No configuration file: the allowlist stays empty (egress.py lines 36-38).
InitEgress == EGRESS_ALLOWLIST = EmptyMap /\ decided = NoDecision /\ conn = NoConn
InitVerifier == all_entries = <<>> /\ report = NoReport
\* No configuration file: no configured names, no per-agent idle timeouts.
InitConfig == CONFIGURED_AGENT_NAMES = {} /\ IDLE_TIMEOUTS = EmptyMap /\ called = NoCall

Init == InitGateway /\ InitEgress /\ InitVerifier /\ InitConfig

\* ------------------------------------------------------------------ helpers
Reply(status, body) == [status |-> status, body |-> body]
Exc(msg) == [kind |-> "exc", msg |-> msg]
Threads == {Uuid(r) : r \in Requests}

\* The keyword arguments of the three state-changing updates.
RunningFieldsNoState(now) == Fields1("started_at", Datetime(now))
RunningFields(now) ==
    Fields2("state", Str(INV_STATE_RUNNING), "started_at", Datetime(now))
CompletedFields(now, result) ==
    Fields3("state", Str(INV_STATE_COMPLETED), "ended_at", Datetime(now), "result", result)
FailedFieldsNoEnd(now, error) ==
    Fields2("state", Str(INV_STATE_FAILED), "error", error)
FailedFields(now, error) ==
    Fields3("state", Str(INV_STATE_FAILED), "ended_at", Datetime(now), "error", error)

\* LAST_SEEN[agent] = now / LAST_SEEN.pop(agent, None)
record_agent_activity(agent, now) ==
    [k \in DOMAIN LAST_SEEN \cup {agent} |-> IF k = agent THEN Datetime(now) ELSE LAST_SEEN[k]]
clear_last_seen(agent) == [k \in DOMAIN LAST_SEEN \ {agent} |-> LAST_SEEN[k]]

\* os.path.basename(up.filename or "input.bin"): what follows the last "/".
Basename(filename) == IF filename = <<>> THEN "input.bin" ELSE filename[Len(filename)]

\* if fname in {"", ".", ".."}: continue
Skipped(fname) == fname \in {"", ".", ".."}

\* A loop that leaves after the first file it wrote.
RECURSIVE StageFilesFirstOnly(_, _, _)
StageFilesFirstOnly(uploaded_files, i, in_dir) ==
    IF i > Len(uploaded_files) THEN <<in_dir, 200>>
    ELSE LET up == uploaded_files[i]
             fname == Basename(up.filename)
         IN IF Skipped(fname) THEN StageFilesFirstOnly(uploaded_files, i + 1, in_dir)
            ELSE IF up.size > MAX_BYTES THEN <<in_dir, 413>>
            ELSE <<[f \in DOMAIN in_dir \cup {fname} |->
                      IF f = fname THEN up.size ELSE in_dir[f]], 200>>

\* The staging loop over uploaded_files[i..]: <<files in in_dir, status>>, where
\* status 413 is the HTTPException raised at the first oversized file read.
RECURSIVE StageFiles(_, _, _)
StageFiles(uploaded_files, i, in_dir) ==
    IF i > Len(uploaded_files) THEN <<in_dir, 200>>
    ELSE LET up == uploaded_files[i]
             fname == Basename(up.filename)
         IN IF Skipped(fname) THEN StageFiles(uploaded_files, i + 1, in_dir)
            ELSE IF up.size > MAX_BYTES THEN <<in_dir, 413>>
            ELSE StageFiles(uploaded_files, i + 1,
                            [f \in DOMAIN in_dir \cup {fname} |->
                                IF f = fname THEN up.size ELSE in_dir[f]])

\* resp_json.setdefault("thread_id", thread_id) on a dict.
SetDefaultThreadId(resp_json, thread_id) ==
    IF "thread_id" \in DOMAIN resp_json.v THEN resp_json
    ELSE Dict([k \in DOMAIN resp_json.v \cup {"thread_id"} |->
                 IF k = "thread_id" THEN thread_id ELSE resp_json.v[k]])

\* ------------------------------------------------------------------ POST /invoke/{agent}
CheckBearerAfterInsert(r, agent, auth, payload, sync_flag) ==
    /\ audit_log' = audit_log
    /\ IF StartsWithBearer(auth)
       THEN /\ pc' = [pc EXCEPT ![r] = "insert"]
            /\ req' = [req EXCEPT ![r] = [agent |-> agent, auth |-> auth,
                                          payload |-> payload, sync_flag |-> sync_flag]]
            /\ reply' = reply
            /\ UNCHANGED <<invocations, JOBS>>
       ELSE /\ insert_job_row(Uuid(r), agent, auth, payload, TRUE)
            /\ pc' = [pc EXCEPT ![r] = "done"]
            /\ req' = req
            /\ reply' = [reply EXCEPT ![r] = Reply(400, Str("missing bearer token"))]

\* The bearer check and what follows it up to the first await on the store.
CheckBearer(r, agent, auth, payload, sync_flag) ==
    /\ UNCHANGED storeVars
    /\ IF StartsWithBearer(auth)
       THEN /\ pc' = [pc EXCEPT ![r] = "insert"]
            /\ req' = [req EXCEPT ![r] = [agent |-> agent, auth |-> auth,
                                          payload |-> payload, sync_flag |-> sync_flag]]
            /\ reply' = reply
       ELSE /\ pc' = [pc EXCEPT ![r] = "done"]
            /\ req' = req
            /\ reply' = [reply EXCEPT ![r] = Reply(400, Str("missing bearer token"))]

\* Lines 414-458: refresh, lazy start, activity, bearer check, body parsing.
InvokeStart(r) ==
    /\ pc[r] = "idle"
    \* requests are numbered in their order of arrival
    /\ \A q \in Requests : q < r => pc[q] # "idle"
    /\ \E agent \in AgentNames, auth \in AuthHeaders, payload \in Payloads,
          sync_flag \in BOOLEAN, hostUp \in BOOLEAN, up \in BOOLEAN :
          LET m1 == Refreshed(hostUp, containers, AGENTS, AGENT_IP_MAP)
              known == agent \in DOMAIN m1[1]
              e == EnsureAgentRunning(agent, hostUp, up, containers, m1[1])
              m2 == Refreshed(hostUp, e[2], m1[1], m1[2])
          IN IF ~known /\ ~e[1]
             THEN /\ AGENTS' = m1[1] /\ AGENT_IP_MAP' = m1[2]
                  /\ pc' = [pc EXCEPT ![r] = "done"]
                  /\ reply' = [reply EXCEPT ![r] = Reply(404, Str("unknown agent"))]
                  /\ UNCHANGED <<containers, LAST_SEEN, req, storeVars>>
             ELSE /\ AGENTS' = IF known THEN m1[1] ELSE m2[1]
                  /\ AGENT_IP_MAP' = IF known THEN m1[2] ELSE m2[2]
                  /\ containers' = IF known THEN containers ELSE e[2]
                  /\ LAST_SEEN' = record_agent_activity(agent, clock)
                  /\ CheckBearer(r, agent, auth, payload, sync_flag)
    /\ UNCHANGED <<DB_POOL, egressVars, verifierVars, configVars, lifespan, called, uploadVars, client, artifacts, clock, local, oversized, answered, dbFaults>>

\* Lines 460-461: thread_id = uuid4(); insert_job_row(...)
InvokeInsert(r) ==
    /\ pc[r] = "insert"
    /\ \E ok \in DbOutcomes :
          /\ insert_job_row(Uuid(r), req[r].agent, req[r].auth, req[r].payload, ok)
          /\ CountFault(ok)
          /\ IF InsertRaises(Uuid(r), ok)
             THEN /\ pc' = [pc EXCEPT ![r] = "done"]
                  /\ reply' = [reply EXCEPT ![r] = Reply(500, None_)]
             ELSE /\ pc' = [pc EXCEPT ![r] = "audit_request"]
                  /\ reply' = reply
    /\ UNCHANGED <<DB_POOL, egressVars, verifierVars, configVars, lifespan, called, uploadVars, audit_log, registryVars, LAST_SEEN, artifacts, clock, req,
                   local, oversized, answered>>

\* Line 464: audit_invoke_request(...)
InvokeAuditRequest(r) ==
    /\ pc[r] = "audit_request"
    /\ \E ok \in DbOutcomes :
          /\ audit_invoke_request(req[r].auth, Uuid(r), req[r].agent, req[r].payload, ok)
          /\ CountFault(ok)
    /\ pc' = [pc EXCEPT ![r] = "stage"]
    /\ UNCHANGED <<DB_POOL, egressVars, verifierVars, configVars, lifespan, called, uploadVars, invocations, JOBS, registryVars, LAST_SEEN, artifacts, clock,
                   req, local, reply, oversized, answered>>

\* What the handler does once staging ended with `status`.
AfterStaging(r, status) ==
    IF status = 413
    THEN /\ pc' = [pc EXCEPT ![r] = "done"]
         /\ reply' = [reply EXCEPT ![r] = Reply(413, Str("exceeds limit"))]
    ELSE IF req[r].sync_flag
    THEN /\ pc' = [pc EXCEPT ![r] = "sync_running"]
         /\ reply' = reply
    ELSE \* asyncio.create_task(_worker()) and the handle is returned
         /\ pc' = [pc EXCEPT ![r] = "worker_running"]
         /\ reply' = [reply EXCEPT ![r] =
                Reply(200, Dict([thread_id |-> Uuid(r), status_url |-> <<"/status/", Uuid(r)>>,
                                 result_url |-> <<"/result/", Uuid(r)>>]))]

\* Lines 469-526: directories, then the staging loop.
InvokeStage(r) ==
    /\ pc[r] = "stage"
    /\ \E uploaded_files \in UploadLists :
          \* os.makedirs of the thread directory, in and out (lines 473-505)
          LET staged == StageFiles(uploaded_files, 1, artifacts[r])
          IN /\ uploaded' = [uploaded EXCEPT ![r] = uploaded_files]
             /\ dirs' = [dirs EXCEPT ![r] = {".", "in", "out"}]
             /\ artifacts' = [artifacts EXCEPT ![r] = staged[1]]
             /\ oversized' = [oversized EXCEPT ![r] =
                    \E i \in 1..Len(uploaded_files) :
                        /\ uploaded_files[i].size > MAX_BYTES
                        /\ ~Skipped(Basename(uploaded_files[i].filename))]
             /\ AfterStaging(r, staged[2])
    /\ UNCHANGED <<DB_POOL, egressVars, verifierVars, configVars, lifespan, called, storeVars, registryVars, LAST_SEEN, clock, req, local, answered,
                   dbFaults>>

\* The frame of a step that only touches the job store, the audit log and the
\* invocation's own position.
HandlerFrame == UNCHANGED <<DB_POOL, egressVars, verifierVars, configVars, lifespan, called, uploadVars, registryVars, LAST_SEEN, artifacts, clock, req, oversized>>
StoreStepFrame == HandlerFrame /\ UNCHANGED answered

\* ------------------------------------------------------------------ sync mode
\* Lines 542-546
SyncMarkRunning(r) ==
    /\ pc[r] = "sync_running"
    /\ \E ok \in DbOutcomes :
          /\ update_job_record(Uuid(r), RunningFields(clock), ok)
          /\ CountFault(ok)
          /\ IF UpdateRaises(RunningFields(clock), ok)
             THEN /\ pc' = [pc EXCEPT ![r] = "done"]
                  /\ reply' = [reply EXCEPT ![r] = Reply(500, None_)]
             ELSE /\ pc' = [pc EXCEPT ![r] = "sync_forward"]
                  /\ reply' = reply
    /\ UNCHANGED <<audit_log, local>>
    /\ StoreStepFrame

\* Lines 548-558: what the sync branch makes of the agent's answer: the
\* exception it raises, or the parsed resp_json.
SyncOutcome(out) ==
    IF out.exc THEN Exc(Str(out.msg))
    ELSE IF out.status_code # 200
    THEN Exc([kind |-> "str", fmt |-> "Agent returned status {}: {}",
              status_code |-> out.status_code, text |-> Text(out.body)])
    ELSE IF out.body.parsed = NotJson
    THEN Exc([kind |-> "str", fmt |-> "Agent returned non-JSON response: {}...",
              text |-> Slice(Text(out.body), 200)])
    ELSE [kind |-> "response", status_code |-> out.status_code, resp_json |-> out.body.parsed]

SyncForward(r) ==
    /\ pc[r] = "sync_forward"
    /\ IF req[r].agent \notin DOMAIN AGENTS
       THEN local' = [local EXCEPT ![r] = Exc(Str("KeyError"))] /\ answered' = answered
       ELSE \E out \in AgentOutcomes :
               /\ local' = [local EXCEPT ![r] = SyncOutcome(out)]
               /\ answered' = [answered EXCEPT ![r] = out]
    /\ pc' = [pc EXCEPT ![r] = IF local'[r].kind = "exc" THEN "sync_fail" ELSE "sync_complete"]
    /\ UNCHANGED <<storeVars, reply, dbFaults>>
    /\ HandlerFrame

\* Lines 559-564
SyncComplete(r) ==
    /\ pc[r] = "sync_complete"
    /\ \E ok \in DbOutcomes :
          LET fields == CompletedFields(clock, local[r].resp_json)
          IN /\ update_job_record(Uuid(r), fields, ok)
             /\ CountFault(ok)
             /\ IF UpdateRaises(fields, ok)
                THEN /\ pc' = [pc EXCEPT ![r] = "sync_fail"]
                     /\ local' = [local EXCEPT ![r] = Exc(Str("DataError"))]
                ELSE /\ pc' = [pc EXCEPT ![r] = "sync_audit_ok"]
                     /\ local' = local
    /\ UNCHANGED <<audit_log, reply>>
    /\ StoreStepFrame

\* JOBS[thread_id]["result"] is the very dict resp_json (update() stored the
\* reference), so setdefault on resp_json also changes the in-memory record; a
\* row of the durable store is not affected.
AliasedResult(jobs, thread_id, resp_json) ==
    IF ~DB_POOL /\ thread_id \in DOMAIN jobs
    THEN [jobs EXCEPT ![thread_id] = UpdatedDict(@, Fields1("result", resp_json))]
    ELSE jobs

\* Lines 566-571: the response audit entry, then setdefault and return; on a
\* resp_json that is no dict, setdefault raises AttributeError inside the try.
SyncAuditReturn(r) ==
    /\ pc[r] = "sync_audit_ok"
    /\ \E ok \in DbOutcomes :
          /\ audit_invoke_response(req[r].auth, Uuid(r), req[r].agent, local[r].status_code,
                                   local[r].resp_json, None_, ok)
          /\ CountFault(ok)
    /\ IF local[r].resp_json.kind = "dict"
       THEN /\ pc' = [pc EXCEPT ![r] = "done"]
            /\ reply' = [reply EXCEPT ![r] =
                   Reply(200, SetDefaultThreadId(local[r].resp_json, Uuid(r)))]
            /\ local' = [local EXCEPT ![r] = NoLocal]
            /\ JOBS' = AliasedResult(JOBS, Uuid(r),
                                     SetDefaultThreadId(local[r].resp_json, Uuid(r)))
       ELSE /\ pc' = [pc EXCEPT ![r] = "sync_fail"]
            /\ reply' = reply
            /\ local' = [local EXCEPT ![r] = Exc(Str("AttributeError"))]
            /\ JOBS' = JOBS
    /\ invocations' = invocations
    /\ StoreStepFrame

\* Lines 572-578: except Exception as e: the failed update; an exception of
\* the update itself leaves the handler.
SyncFail(r) ==
    /\ pc[r] = "sync_fail"
    /\ \E ok \in DbOutcomes :
          LET fields == FailedFields(clock, Dict([message |-> local[r].msg]))
          IN /\ update_job_record(Uuid(r), fields, ok)
             /\ CountFault(ok)
             /\ IF UpdateRaises(fields, ok)
                THEN /\ pc' = [pc EXCEPT ![r] = "done"]
                     /\ reply' = [reply EXCEPT ![r] = Reply(500, None_)]
                     /\ local' = [local EXCEPT ![r] = NoLocal]
                ELSE /\ pc' = [pc EXCEPT ![r] = "sync_audit_fail"]
                     /\ reply' = reply
                     /\ local' = local
    /\ UNCHANGED audit_log
    /\ StoreStepFrame

\* Lines 580-583: the error audit entry, then `raise`.
SyncAuditRaise(r) ==
    /\ pc[r] = "sync_audit_fail"
    /\ \E ok \in DbOutcomes :
          /\ audit_invoke_response(req[r].auth, Uuid(r), req[r].agent, 500, None_,
                                   local[r].msg, ok)
          /\ CountFault(ok)
    /\ pc' = [pc EXCEPT ![r] = "done"]
    /\ reply' = [reply EXCEPT ![r] = Reply(500, None_)]
    /\ local' = [local EXCEPT ![r] = NoLocal]
    /\ UNCHANGED <<invocations, JOBS>>
    /\ StoreStepFrame

\* ------------------------------------------------------------------ async mode: _worker
\* Lines 590-594: an exception here ends the task.
WorkerMarkRunning(r) ==
    /\ pc[r] = "worker_running"
    /\ \E ok \in DbOutcomes :
          /\ update_job_record(Uuid(r), RunningFields(clock), ok)
          /\ CountFault(ok)
          /\ pc' = [pc EXCEPT ![r] = IF UpdateRaises(RunningFields(clock), ok)
                                      THEN "done" ELSE "worker_forward"]
    /\ UNCHANGED <<audit_log, local, reply>>
    /\ StoreStepFrame

\* Lines 603-613: parsed (None for a body that is no JSON) and the error_msg.
WorkerOutcome(out) ==
    IF out.exc THEN Exc(Str(out.msg))
    ELSE LET parsed == IF out.body.parsed = NotJson THEN None_ ELSE out.body.parsed
         IN IF out.status_code >= 400 \/ parsed = None_
            THEN [kind |-> "error", status_code |-> out.status_code, text |-> Text(out.body),
                  error_msg |-> IF out.status_code = 403
                                THEN Str("agent attempted outbound request to non-allowlisted URL")
                                ELSE Str("agent returned non-JSON or error status")]
            ELSE [kind |-> "response", status_code |-> out.status_code, parsed |-> parsed]

WorkerForward(r) ==
    /\ pc[r] = "worker_forward"
    /\ IF req[r].agent \notin DOMAIN AGENTS
       THEN local' = [local EXCEPT ![r] = Exc(Str("KeyError"))] /\ answered' = answered
       ELSE \E out \in AgentOutcomes :
               /\ local' = [local EXCEPT ![r] = WorkerOutcome(out)]
               /\ answered' = [answered EXCEPT ![r] = out]
    /\ pc' = [pc EXCEPT ![r] = CASE local'[r].kind = "exc" -> "worker_except"
                                 [] local'[r].kind = "error" -> "worker_fail"
                                 [] OTHER -> "worker_complete"]
    /\ UNCHANGED <<storeVars, reply, dbFaults>>
    /\ HandlerFrame

\* Lines 614-625: the error object, serialized with json.dumps.
WorkerError(l) ==
    json_dumps(Dict([status |-> l.status_code, body |-> Slice(l.text, 500),
                     message |-> l.error_msg]))

WorkerFail(r) ==
    /\ pc[r] = "worker_fail"
    /\ \E ok \in DbOutcomes :
          LET fields == FailedFields(clock, WorkerError(local[r]))
          IN /\ update_job_record(Uuid(r), fields, ok)
             /\ CountFault(ok)
             /\ IF UpdateRaises(fields, ok)
                THEN /\ pc' = [pc EXCEPT ![r] = "worker_except"]
                     /\ local' = [local EXCEPT ![r] = Exc(Str("DataError"))]
                ELSE /\ pc' = [pc EXCEPT ![r] = "worker_audit_fail"]
                     /\ local' = local
    /\ UNCHANGED <<audit_log, reply>>
    /\ StoreStepFrame

\* Lines 627-629
WorkerAuditFail(r) ==
    /\ pc[r] = "worker_audit_fail"
    /\ \E ok \in DbOutcomes :
          /\ audit_invoke_response(req[r].auth, Uuid(r), req[r].agent, local[r].status_code,
                                   None_, local[r].error_msg, ok)
          /\ CountFault(ok)
    /\ pc' = [pc EXCEPT ![r] = "done"]
    /\ local' = [local EXCEPT ![r] = NoLocal]
    /\ UNCHANGED <<invocations, JOBS, reply>>
    /\ StoreStepFrame

\* Lines 631-636: the result, serialized with json.dumps.
WorkerResult(parsed) == json_dumps(parsed)

WorkerComplete(r) ==
    /\ pc[r] = "worker_complete"
    /\ \E ok \in DbOutcomes :
          LET fields == CompletedFields(clock, WorkerResult(local[r].parsed))
          IN /\ update_job_record(Uuid(r), fields, ok)
             /\ CountFault(ok)
             /\ IF UpdateRaises(fields, ok)
                THEN /\ pc' = [pc EXCEPT ![r] = "worker_except"]
                     /\ local' = [local EXCEPT ![r] = Exc(Str("DataError"))]
                ELSE /\ pc' = [pc EXCEPT ![r] = "worker_audit_ok"]
                     /\ local' = local
    /\ UNCHANGED <<audit_log, reply>>
    /\ StoreStepFrame

\* A worker whose failed audit insert is raised into its except branch.
WorkerAuditOkPropagates(r) ==
    /\ pc[r] = "worker_audit_ok"
    /\ \E ok \in DbOutcomes :
          /\ audit_invoke_response(req[r].auth, Uuid(r), req[r].agent, local[r].status_code,
                                   local[r].parsed, None_, ok)
          /\ CountFault(ok)
          /\ pc' = [pc EXCEPT ![r] = IF ok THEN "done" ELSE "worker_except"]
          /\ local' = [local EXCEPT ![r] = IF ok THEN NoLocal ELSE Exc(Str("audit"))]
    /\ UNCHANGED <<invocations, JOBS, reply>>
    /\ StoreStepFrame
\* Lines 638-640
WorkerAuditOk(r) ==
    /\ pc[r] = "worker_audit_ok"
    /\ \E ok \in DbOutcomes :
          /\ audit_invoke_response(req[r].auth, Uuid(r), req[r].agent, local[r].status_code,
                                   local[r].parsed, None_, ok)
          /\ CountFault(ok)
    /\ pc' = [pc EXCEPT ![r] = "done"]
    /\ local' = [local EXCEPT ![r] = NoLocal]
    /\ UNCHANGED <<invocations, JOBS, reply>>
    /\ StoreStepFrame

\* Lines 641-647: except Exception as e
WorkerExcept(r) ==
    /\ pc[r] = "worker_except"
    /\ \E ok \in DbOutcomes :
          LET fields == FailedFields(clock, json_dumps(Dict([message |-> local[r].msg])))
          IN /\ update_job_record(Uuid(r), fields, ok)
             /\ CountFault(ok)
             /\ IF UpdateRaises(fields, ok)
                THEN /\ pc' = [pc EXCEPT ![r] = "done"]
                     /\ local' = [local EXCEPT ![r] = NoLocal]
                ELSE /\ pc' = [pc EXCEPT ![r] = "worker_audit_except"]
                     /\ local' = local
    /\ UNCHANGED <<audit_log, reply>>
    /\ StoreStepFrame

\* Lines 649-651
WorkerAuditExcept(r) ==
    /\ pc[r] = "worker_audit_except"
    /\ \E ok \in DbOutcomes :
          /\ audit_invoke_response(req[r].auth, Uuid(r), req[r].agent, 500, None_,
                                   local[r].msg, ok)
          /\ CountFault(ok)
    /\ pc' = [pc EXCEPT ![r] = "done"]
    /\ local' = [local EXCEPT ![r] = NoLocal]
    /\ UNCHANGED <<invocations, JOBS, reply>>
    /\ StoreStepFrame

\* ------------------------------------------------------------------ POST /progress/{thread_id}
\* A progress post that also marks the job running.
post_progressMarksRunning(thread_id, progress) ==
    /\ get_job(thread_id) # None_
    /\ \E ok \in DbOutcomes :
          /\ update_job_record(thread_id,
                               Fields2("progress", progress, "state", Str(INV_STATE_RUNNING)), ok)
          /\ CountFault(ok)
    /\ UNCHANGED <<DB_POOL, egressVars, verifierVars, configVars, lifespan, called, uploadVars, audit_log, registryVars, LAST_SEEN, artifacts, clock, pc, req,
                   local, reply, oversized, answered>>
\* A body with a progress field; an unknown thread_id is answered 404.
post_progress(thread_id, progress) ==
    /\ get_job(thread_id) # None_
    /\ \E ok \in DbOutcomes :
          /\ update_job_record(thread_id, Fields1("progress", progress), ok)
          /\ CountFault(ok)
    /\ UNCHANGED <<DB_POOL, egressVars, verifierVars, configVars, lifespan, called, uploadVars, audit_log, registryVars, LAST_SEEN, artifacts, clock, pc, req,
                   local, reply, oversized, answered>>

PostProgress == \E t \in Threads, p \in ProgressValues : post_progress(t, p)

\* ------------------------------------------------------------------ registry operations
\* watch_docker: one refresh_agents() every 5 s.
WatchDocker ==
    /\ \E hostUp \in BOOLEAN :
          LET m == Refreshed(hostUp, containers, AGENTS, AGENT_IP_MAP)
          IN AGENTS' = m[1] /\ AGENT_IP_MAP' = m[2]
    /\ UNCHANGED <<DB_POOL, egressVars, verifierVars, configVars, lifespan, called, uploadVars, storeVars, LAST_SEEN, client, containers, artifacts, clock, pc,
                   req, local, reply, oversized, answered, dbFaults>>

\* POST /agents/{agent}/start
start_agent(agent) ==
    /\ \E hostUp \in BOOLEAN, up \in BOOLEAN :
          LET e == EnsureAgentRunning(agent, hostUp, up, containers, AGENTS)
              m == Refreshed(hostUp, e[2], AGENTS, AGENT_IP_MAP)
          IN /\ e[1]
             /\ containers' = e[2]
             /\ AGENTS' = m[1] /\ AGENT_IP_MAP' = m[2]
             /\ LAST_SEEN' = record_agent_activity(agent, clock)
    /\ UNCHANGED <<DB_POOL, egressVars, verifierVars, configVars, lifespan, called, uploadVars, storeVars, client, artifacts, clock, pc, req, local, reply,
                   oversized, answered, dbFaults>>

\* POST /agents/{agent}/stop: a running container is stopped.
stop_agent(agent) ==
    /\ client
    /\ agent \in DOMAIN containers /\ containers[agent] = "running"
    /\ containers' = [containers EXCEPT ![agent] = "exited"]
    /\ LAST_SEEN' = clear_last_seen(agent)
    /\ \E hostUp \in BOOLEAN :
          LET m == Refreshed(hostUp, containers', AGENTS, AGENT_IP_MAP)
          IN AGENTS' = m[1] /\ AGENT_IP_MAP' = m[2]
    /\ UNCHANGED <<DB_POOL, egressVars, verifierVars, configVars, lifespan, called, uploadVars, storeVars, client, artifacts, clock, pc, req, local, reply,
                   oversized, answered, dbFaults>>

\* The gateway clock advances.
Tick ==
    /\ clock < MaxClock
    /\ clock' = clock + 1
    /\ UNCHANGED <<DB_POOL, egressVars, verifierVars, configVars, lifespan, called, uploadVars, storeVars, registryVars, LAST_SEEN, artifacts, pc, req, local,
                   reply, oversized, answered, dbFaults>>

Invoke(r) ==
    \/ InvokeStart(r) \/ InvokeInsert(r) \/ InvokeAuditRequest(r) \/ InvokeStage(r)
    \/ SyncMarkRunning(r) \/ SyncForward(r) \/ SyncComplete(r) \/ SyncAuditReturn(r)
    \/ SyncFail(r) \/ SyncAuditRaise(r)
    \/ WorkerMarkRunning(r) \/ WorkerForward(r) \/ WorkerFail(r) \/ WorkerAuditFail(r)
    \/ WorkerComplete(r) \/ WorkerAuditOk(r) \/ WorkerExcept(r) \/ WorkerAuditExcept(r)

Next ==
    \/ \E r \in Requests : Invoke(r)
    \/ PostProgress
    \/ WatchDocker
    \/ \E a \in AgentNames : start_agent(a)
    \/ \E a \in AgentNames : stop_agent(a)
    \/ Tick

Spec == Init /\ [][Next]_vars

\* ------------------------------------------------------------------ the egress proxy
Https == <<"h", "t", "t", "p", "s", ":", "/", "/">>
HostApi == <<"a", "p", "i", ".", "e", "x", "a", "m", "p", "l", "e", ".", "c", "o", "m">>
HostOther ==
    <<"o", "t", "h", "e", "r", ".", "e", "x", "a", "m", "p", "l", "e", ".", "c", "o", "m">>

\* The configured allowlists: foo's ["https://api.example.com/*"]; an empty
\* list; no entry; ["https://api.example.com"] beside bar's ["*"]; a pattern
\* that does not compile.
Allowlists ==
    {[a \in {"foo"} |-> <<Https \o HostApi \o <<"/", "*">>>>],
     [a \in {"foo"} |-> <<>>],
     EmptyMap,
     [a \in {"foo", "bar"} |-> IF a = "foo" THEN <<Https \o HostApi>> ELSE <<<<"*">>>>],
     [a \in {"foo"} |-> <<<<"(">>>>]}

\* What a client sends: a peer address, a request line (nothing, fewer than
\* three parts, or method and target), one header line.
PeerIPs == {ContainerIP("foo"), "10.9.9.9"}
Target(host, colon, port_str) == [host |-> host, colon |-> colon, port_str |-> port_str]
RequestLine(method, target) == [parts |-> 3, method |-> method, target |-> target]
RequestLines ==
    {[parts |-> 0], [parts |-> 2],
     RequestLine("CONNECT", Target(HostApi, TRUE, "443")),
     RequestLine("CONNECT", Target(HostOther, TRUE, "443")),
     RequestLine("CONNECT", Target(HostApi, FALSE, "")),
     RequestLine("CONNECT", Target(HostApi, TRUE, "x")),
     RequestLine("GET", Target(HostApi, TRUE, "443"))}
NoHeader == [colon |-> TRUE, k |-> "", v |-> ""]
HeaderLines ==
    {NoHeader,
     [colon |-> TRUE, k |-> "X-Agent-Name", v |-> "bar"],
     [colon |-> TRUE, k |-> "x-agent-name", v |-> "foo"],
     [colon |-> FALSE, k |-> "", v |-> ""]}

\* k.lower()
Lower(k) == IF k = "X-Agent-Name" THEN "x-agent-name" ELSE k
\* int(port_str), 443 on ValueError
PortOf(target) ==
    IF target.colon /\ target.port_str = "443" THEN 443
    ELSE IF target.colon /\ target.port_str = "8443" THEN 8443
    ELSE 443

\* AGENT_IP_MAP.get(peer_ip), "" for None
ByIP(peer_ip) == IF peer_ip \in DOMAIN AGENT_IP_MAP THEN AGENT_IP_MAP[peer_ip] ELSE ""

\* The header is taken before the peer address.
IdentifyHeaderFirst(by_ip, header) ==
    IF Lower(header.k) = "x-agent-name" THEN header.v ELSE by_ip
\* if not agent and k.lower() == "x-agent-name": agent = v.strip()
Identify(by_ip, header) ==
    IF by_ip = "" /\ Lower(header.k) = "x-agent-name" THEN header.v ELSE by_ip

Outcome(response, upstream) == [response |-> response, upstream |-> upstream]
\* The upstream is dialled before the allowlist is looked at.
AfterDecisionDialFirst(allowed, dial) ==
    IF allowed = "raise" THEN Outcome(0, "none")
    ELSE IF ~dial THEN Outcome(502, "failed")
    ELSE IF allowed = "deny" THEN Outcome(403, "open")
    ELSE Outcome(200, "open")
\* Lines 130-151: 403 on deny, then open_connection, 502 when it raises, else
\* 200 and the tunnel; an exception of _is_allowed ends in the outer handler,
\* which writes nothing.
AfterDecision(allowed, dial) ==
    IF allowed = "raise" THEN Outcome(0, "none")
    ELSE IF allowed = "deny" THEN Outcome(403, "none")
    ELSE IF ~dial THEN Outcome(502, "failed")
    ELSE Outcome(200, "open")

\* _handle_proxy: what it wrote and whether it dialled.
Handled(peer_ip, line, header, dial) ==
    LET by_ip == ByIP(peer_ip)
        agent == Identify(by_ip, header)
        url == IF line.parts = 3 THEN Https \o line.target.host ELSE <<>>
        out == IF line.parts = 0 THEN Outcome(0, "none")
               ELSE IF line.parts < 3 THEN Outcome(400, "none")
               ELSE IF ~header.colon THEN Outcome(0, "none")
               ELSE IF line.method # "CONNECT" THEN Outcome(405, "none")
               ELSE IF agent = "" THEN Outcome(403, "none")
               ELSE AfterDecision(_is_allowed(agent, url), dial)
    IN [handled |-> TRUE, peer_ip |-> peer_ip, by_ip |-> by_ip, line |-> line,
        header |-> header, dial |-> dial, agent |-> agent, url |-> url,
        port |-> IF line.parts = 3 THEN PortOf(line.target) ELSE 0,
        response |-> out.response, upstream |-> out.upstream]

HandleProxy ==
    /\ \E peer_ip \in PeerIPs, line \in RequestLines, header \in HeaderLines, dial \in BOOLEAN :
          conn' = Handled(peer_ip, line, header, dial)
    /\ UNCHANGED <<DB_POOL, storeVars, registryVars, LAST_SEEN, artifacts, clock, pc, req,
                   local, reply, oversized, uploadVars, EGRESS_ALLOWLIST, decided,
                   verifierVars, configVars, lifespan, called, answered, dbFaults>>

InitProxy ==
    /\ InitGateway
    /\ ~DB_POOL /\ client
    /\ EGRESS_ALLOWLIST \in Allowlists
    /\ decided = NoDecision /\ conn = NoConn
    /\ InitVerifier /\ InitConfig
NextProxy ==
    \/ HandleProxy
    \/ WatchDocker
    \/ \E a \in AgentNames : start_agent(a)
    \/ \E a \in AgentNames : stop_agent(a)
SpecProxy == InitProxy /\ [][NextProxy]_vars

\* ------------------------------------------------------------------ the matchers alone
\* A gateway with the in-memory store and no container host.
InitQuiet ==
    /\ InitGateway
    /\ ~DB_POOL /\ ~client
    /\ containers = [n \in ContainerNames |-> "exited"]
    /\ InitConfig

\* One URL is put to proxy._is_allowed and to egress.is_allowed for agent foo.
Decide ==
    /\ \E url \in MatchUrls :
          decided' = [url |-> url, proxy |-> _is_allowed("foo", url),
                      egress |-> is_allowed("foo", url)]
    /\ UNCHANGED <<DB_POOL, storeVars, registryVars, LAST_SEEN, artifacts, clock, pc, req,
                   local, reply, oversized, uploadVars, EGRESS_ALLOWLIST, conn, verifierVars, configVars, lifespan, called,
                   answered, dbFaults>>

InitMatch ==
    /\ InitQuiet
    /\ EGRESS_ALLOWLIST \in {[a \in {"foo"} |-> <<p>>] : p \in MatchPatterns}
    /\ decided = NoDecision /\ conn = NoConn
    /\ InitVerifier
NextMatch == Decide
SpecMatch == InitMatch /\ [][NextMatch]_vars

\* ------------------------------------------------------------------ audit verifier
\* The hash the specification asks of an entry: hash(prev_hash, the entry's columns).
RowColumns(row) ==
    [timestamp |-> row.timestamp, thread_id |-> row.thread_id, action |-> row.action]
ZeroHash == [kind |-> "hash", zero |-> TRUE]
HashOf(prev_hash, row) == [kind |-> "hash", prev |-> prev_hash, of |-> RowColumns(row)]

\* A table whose rows are chained: row n is the n-th by timestamp.
RECURSIVE ChainOf(_)
ChainOf(actions) ==
    IF actions = <<>> THEN <<>>
    ELSE LET n      == Len(actions)
             before == ChainOf(SubSeq(actions, 1, n - 1))
             prev   == IF n = 1 THEN ZeroHash ELSE before[n - 1].entry_hash
             row    == [timestamp |-> n, thread_id |-> Uuid((n + 1) \div 2),
                        action |-> actions[n]]
         IN  Append(before,
                    [timestamp |-> n, thread_id |-> row.thread_id, action |-> row.action,
                     prev_hash |-> prev, entry_hash |-> HashOf(prev, row)])

AuditTables == {ChainOf(a) : a \in SeqsUpTo({"invoke_request", "invoke_response"}, MaxEntries)}

TamperValues == {Str("tampered_hash_value_breaks_chain"), Str("deadbeef")}
Untouched(row) == row.entry_hash = HashOf(row.prev_hash, row)

Finding(entry, error) ==
    [thread_id |-> entry.thread_id, timestamp |-> entry.timestamp,
     action |-> entry.action, error |-> error]

\* The loop over all_entries: what entry i appends to compromised, then the rest.
RECURSIVE Compromised(_, _)
Compromised(entries, i) ==
    IF i > Len(entries) THEN <<>>
    ELSE (IF entries[i].entry_hash = Str("tampered_hash_value_breaks_chain")
          THEN <<Finding(entries[i], "Hash manually tampered")>> ELSE <<>>)
         \o (IF i > 1 /\ entries[i].prev_hash # entries[i - 1].entry_hash
             THEN <<Finding(entries[i], "Broken chain link")>> ELSE <<>>)
         \o Compromised(entries, i + 1)

\* The SELECT names prev_hash and entry_hash: on rows without them it raises, and
\* the handler answers 500.
VerifyReport(entries) ==
    IF ~DB_POOL THEN Reply(503, "Audit verification unavailable - database not connected")
    ELSE IF \E i \in 1..Len(entries) : {"prev_hash", "entry_hash"} \ DOMAIN entries[i] # {}
    THEN Reply(500, "Failed to verify audit integrity")
    ELSE IF entries = <<>>
    THEN Reply(200, [verified |-> TRUE, total_entries |-> 0, compromised_entries |-> <<>>])
    ELSE LET compromised == Compromised(entries, 1)
         IN  Reply(200, [verified |-> Len(compromised) = 0,
                         total_entries |-> Len(entries),
                         compromised_count |-> Len(compromised),
                         compromised_entries |->
                             SubSeq(compromised, 1,
                                    IF Len(compromised) < 10 THEN Len(compromised) ELSE 10)])

\* GET /audit/verify over the table as it stands.
verify_audit_integrity ==
    /\ report' = VerifyReport(all_entries)
    /\ UNCHANGED <<DB_POOL, storeVars, registryVars, LAST_SEEN, artifacts, clock, pc, req,
                   local, reply, oversized, uploadVars, egressVars, configVars, lifespan, called, all_entries,
                   answered, dbFaults>>

\* Somebody with access to the table overwrites the entry_hash of one entry, once.
Overwrite ==
    /\ \A i \in 1..Len(all_entries) :
          "entry_hash" \in DOMAIN all_entries[i] /\ Untouched(all_entries[i])
    /\ \E i \in 1..Len(all_entries), c \in TamperValues :
          all_entries' = [all_entries EXCEPT ![i].entry_hash = c]
    /\ report' = NoReport
    /\ UNCHANGED <<DB_POOL, storeVars, registryVars, LAST_SEEN, artifacts, clock, pc, req,
                   local, reply, oversized, uploadVars, egressVars, configVars, lifespan, called,
                   answered, dbFaults>>

InitAudit ==
    /\ InitGateway
    /\ ~client
    /\ containers = [n \in ContainerNames |-> "exited"]
    /\ InitEgress
    /\ all_entries \in AuditTables \cup {<<RequestEntry("tok", Uuid(1), "foo", None_)>>}
    /\ report = NoReport
    /\ InitConfig
NextAudit == verify_audit_integrity \/ Overwrite
SpecAudit == InitAudit /\ [][NextAudit]_vars

\* ------------------------------------------------------------------ GET /agents, POST /agents
\* The names on a host: foo is on the agents-int network, bar is not.
RegistryNames == {"foo", "bar"}
HostStates == UNION {[S -> {"running", "exited"}] : S \in SUBSET RegistryNames}

\* sorted(names), the names of the model in their order.
SortedNames == <<"bar", "foo">>
Sorted(names) == SelectSeq(SortedNames, LAMBDA n : n \in names)
Range(seq) == {seq[i] : i \in 1..Len(seq)}

\* What a handler changes besides the registry, the clock and the activity map.
RegistryFrame ==
    UNCHANGED <<DB_POOL, storeVars, egressVars, verifierVars, configVars, lifespan, uploadVars,
                artifacts, pc, req, local, reply, oversized, answered, dbFaults>>

\* The second query of a handler: _get_agent_containers_fast() again, or no
\* query at all without the Docker clients.
AllCtrs(hostUp, cs) == IF client THEN AgentContainersFast(hostUp, cs) ELSE {}

\* A listing that leaves out the configured names.
AgentsInfoNoConfigured(running_set, all_ctrs, configured_set) ==
    LET stopped_set == IF client THEN all_ctrs \ running_set ELSE {}
        names == Sorted(running_set \cup stopped_set)
    IN  [i \in 1..Len(names) |->
            [name |-> names[i],
             state |-> IF names[i] \in running_set THEN "running" ELSE "stopped"]]
\* list_agents, lines 172-205: agents_info.
AgentsInfo(running_set, all_ctrs, configured_set) ==
    LET stopped_set == IF client THEN all_ctrs \ running_set ELSE {}
        names == Sorted(configured_set \cup running_set \cup stopped_set)
    IN  [i \in 1..Len(names) |->
            [name |-> names[i],
             state |-> IF names[i] \in running_set THEN "running"
                       ELSE IF names[i] \in stopped_set THEN "stopped"
                       ELSE "not-created"]]

list_agents ==
    /\ \E hostUp1 \in BOOLEAN, hostUp2 \in BOOLEAN :
          LET m == Refreshed(hostUp1, containers, AGENTS, AGENT_IP_MAP)
              running_set == DOMAIN m[1]
              all_ctrs == AllCtrs(hostUp2, containers)
          IN  /\ AGENTS' = m[1] /\ AGENT_IP_MAP' = m[2]
              /\ called' = [op |-> "list_agents", running_set |-> running_set,
                            all_ctrs |-> all_ctrs,
                            agents |-> AgentsInfo(running_set, all_ctrs,
                                                  CONFIGURED_AGENT_NAMES)]
    /\ UNCHANGED <<client, containers, LAST_SEEN, clock>>
    /\ RegistryFrame

\* list_agents_filtered, lines 219-253: sorted(selected).
FilterStates == {"running", "stopped", "all"}
FilteredAgents(state, running_set, all_ctrs, configured_set) ==
    LET stopped_set == IF ~client THEN configured_set \ running_set
                       ELSE (all_ctrs \ running_set) \cup (configured_set \ all_ctrs)
    IN  Sorted(IF state = "running" THEN running_set
               ELSE IF state = "stopped" THEN stopped_set
               ELSE running_set \cup stopped_set)

list_agents_filtered(state) ==
    /\ \E hostUp1 \in BOOLEAN, hostUp2 \in BOOLEAN :
          LET m == Refreshed(hostUp1, containers, AGENTS, AGENT_IP_MAP)
              running_set == DOMAIN m[1]
              all_ctrs == AllCtrs(hostUp2, containers)
          IN  /\ AGENTS' = m[1] /\ AGENT_IP_MAP' = m[2]
              /\ called' = [op |-> "list_agents_filtered", state |-> state,
                            running_set |-> running_set, all_ctrs |-> all_ctrs,
                            agents |-> FilteredAgents(state, running_set, all_ctrs,
                                                      CONFIGURED_AGENT_NAMES)]
    /\ UNCHANGED <<client, containers, LAST_SEEN, clock>>
    /\ RegistryFrame

InitAgents ==
    /\ InitEngine /\ ~DB_POOL
    /\ InitHost(HostStates)
    /\ InitEgress /\ InitVerifier
    /\ CONFIGURED_AGENT_NAMES \in SUBSET RegistryNames
    /\ IDLE_TIMEOUTS = EmptyMap
    /\ called = NoCall
NextAgents == list_agents \/ \E state \in FilterStates : list_agents_filtered(state)
SpecAgents == InitAgents /\ [][NextAgents]_vars

\* ------------------------------------------------------------------ lazy start and the idle reaper
\* egress.py: GLOBAL_IDLE_TIMEOUT = int(os.getenv("ACP_IDLE_TIMEOUT_MIN", "15"))
GLOBAL_IDLE_TIMEOUT == 15
\* IDLE_TIMEOUTS.get(agent, GLOBAL_IDLE_TIMEOUT)
get_idle_timeout(agent) ==
    IF agent \in DOMAIN IDLE_TIMEOUTS THEN IDLE_TIMEOUTS[agent] ELSE GLOBAL_IDLE_TIMEOUT

\* The clock counts minutes here; these are its readings.
Minutes == {0, 1, GLOBAL_IDLE_TIMEOUT - 1, GLOBAL_IDLE_TIMEOUT, GLOBAL_IDLE_TIMEOUT + 1}
Elapse ==
    /\ \E t \in Minutes : t > clock /\ clock' = t
    /\ UNCHANGED <<registryVars, LAST_SEEN, called>>
    /\ RegistryFrame

EnsureNames == RegistryNames \cup {"nope"}

\* docker_discovery.ensure_agent_running(agent), called on its own.  nth is 2
\* when the call before it was the same call and the host was not touched since.
ensure_agent_running(agent) ==
    /\ \E hostUp \in BOOLEAN, up \in BOOLEAN :
          LET e == EnsureAgentRunning(agent, hostUp, up, containers, AGENTS)
          IN  /\ containers' = e[2]
              /\ called' = [op |-> "ensure_agent_running", agent |-> agent,
                            hostUp |-> hostUp, up |-> up, result |-> e[1],
                            before |-> containers, after |-> e[2],
                            nth |-> IF /\ called.op = "ensure_agent_running"
                                       /\ called.agent = agent
                                       /\ called.after = containers
                                    THEN 2 ELSE 1]
    /\ UNCHANGED <<AGENTS, AGENT_IP_MAP, client, LAST_SEEN, clock>>
    /\ RegistryFrame

\* The running containers whose recorded activity is at least their timeout old,
\* with > in the place of >=.
IdleContainersStrict(now, running) ==
    {name \in running :
        /\ name \in DOMAIN LAST_SEEN
        /\ now - LAST_SEEN[name].t > get_idle_timeout(name)}
\* lifecycle.py lines 43-55: the containers of the listing that the loop stops.
IdleContainers(now, running) ==
    {name \in running :
        /\ name \in DOMAIN LAST_SEEN
        /\ now - LAST_SEEN[name].t >= get_idle_timeout(name)}

\* One tick of idle_reaper (it returns at once without a Docker client).  The
\* listing raises or gives the running containers; container.stop() raises for
\* the containers of `failing`; refresh_agents() follows every stop that went
\* through.
_check_and_stop_idle_containers ==
    /\ client
    /\ \E hostUp \in BOOLEAN, hostUpR \in BOOLEAN :
          LET running == IF hostUp
                         THEN {n \in DOMAIN containers : containers[n] = "running"}
                         ELSE {}
              asked == IdleContainers(clock, running)
          IN  \E failing \in SUBSET asked :
                 LET stopped == asked \ failing
                     cs == [n \in DOMAIN containers |->
                               IF n \in stopped THEN "exited" ELSE containers[n]]
                     m == IF stopped = {} THEN <<AGENTS, AGENT_IP_MAP>>
                          ELSE Refreshed(hostUpR, cs, AGENTS, AGENT_IP_MAP)
                 IN  /\ containers' = cs
                     /\ AGENTS' = m[1] /\ AGENT_IP_MAP' = m[2]
                     /\ called' = [op |-> "reaper", now |-> clock, listed |-> hostUp,
                                   running |-> running, asked |-> asked,
                                   stopped |-> stopped]
    /\ UNCHANGED <<client, LAST_SEEN, clock>>
    /\ RegistryFrame

\* Somebody starts an existing container on the host (docker start).
docker_start(name) ==
    /\ client
    /\ name \in DOMAIN containers /\ containers[name] = "exited"
    /\ containers' = [containers EXCEPT ![name] = "running"]
    /\ UNCHANGED <<AGENTS, AGENT_IP_MAP, client, LAST_SEEN, clock, called>>
    /\ RegistryFrame

InitLifecycle ==
    /\ InitEngine /\ ~DB_POOL
    /\ InitHost(HostStates)
    /\ InitEgress /\ InitVerifier
    /\ CONFIGURED_AGENT_NAMES = {"foo"}
    /\ IDLE_TIMEOUTS = [n \in {"foo"} |-> 1]
    /\ called = NoCall
NextLifecycle ==
    \/ \E a \in EnsureNames : ensure_agent_running(a)
    \/ _check_and_stop_idle_containers
    \/ \E n \in RegistryNames : docker_start(n)
    \/ \E a \in RegistryNames : start_agent(a)
    \/ \E a \in RegistryNames : stop_agent(a)
    \/ WatchDocker
    \/ Elapse
SpecLifecycle == InitLifecycle /\ [][NextLifecycle]_vars

\* ------------------------------------------------------------------ the job store on its own
\* insert_job_row, update_job_record and get_job called with thread_ids that may
\* or may not be in the store.
StoreThreads == {Uuid(1), Uuid(1 + 1)}
StoreUpdates ==
    {RunningFields(clock),
     CompletedFields(clock, json_dumps(Dict([ok |-> "true"]))),
     Fields1("progress", json_dumps(Dict([pct |-> "50"]))),
     Fields1("progress", Dict([pct |-> "50"]))}
StoreFrame ==
    UNCHANGED <<DB_POOL, audit_log, registryVars, LAST_SEEN, egressVars, verifierVars,
                configVars, lifespan, uploadVars, artifacts, clock, pc, req, local, reply,
                oversized, answered>>

InsertJob ==
    /\ \E thread_id \in StoreThreads, payload \in Payloads, ok \in DbOutcomes :
          /\ insert_job_row(thread_id, "foo", <<"Bearer ", "tok">>, payload, ok)
          /\ CountFault(ok)
          /\ called' = [op |-> "insert_job_row", thread_id |-> thread_id,
                        payload |-> payload,
                        existed |-> get_job(thread_id) # None_,
                        raised |-> InsertRaises(thread_id, ok),
                        before |-> <<invocations, JOBS>>]
    /\ StoreFrame

UpdateJob ==
    /\ \E thread_id \in StoreThreads, fields \in StoreUpdates, ok \in DbOutcomes :
          /\ update_job_record(thread_id, fields, ok)
          /\ CountFault(ok)
          /\ called' = [op |-> "update_job_record", thread_id |-> thread_id,
                        fields |-> fields,
                        existed |-> get_job(thread_id) # None_,
                        raised |-> UpdateRaises(fields, ok),
                        before |-> <<invocations, JOBS>>]
    /\ StoreFrame

InitStore ==
    /\ InitGateway
    /\ ~client
    /\ containers = [n \in ContainerNames |-> "exited"]
    /\ InitEgress /\ InitVerifier /\ InitConfig
NextStore == InsertJob \/ UpdateJob
SpecStore == InitStore /\ [][NextStore]_vars

\* ------------------------------------------------------------------ the registry and its readers
\* A coroutine that may run at any await.
ScheduledAnywhere == TRUE
\* The event loop runs one coroutine at a time and changes coroutine at an await
\* only.  refresh_agents is a plain function called from coroutines of that one
\* loop: between `AGENTS = discovered` and `AGENT_IP_MAP = ip_map` nothing else
\* of the gateway runs.
Scheduled == called.op # "swap"

RegistryStep == UNCHANGED <<client, LAST_SEEN, clock>> /\ RegistryFrame

\* refresh_agents up to `AGENTS = discovered` (lines 54-115); without the Docker
\* clients it returns at once.
refresh_agents ==
    /\ Scheduled
    /\ \E hostUp \in BOOLEAN :
          LET m == Refreshed(hostUp, containers, AGENTS, AGENT_IP_MAP)
          IN IF ~client
             THEN /\ UNCHANGED <<AGENTS, AGENT_IP_MAP>>
                  /\ called' = [op |-> "refresh_agents", swapped |-> FALSE,
                                hostUp |-> hostUp, cs |-> containers,
                                before |-> <<AGENTS, AGENT_IP_MAP>>,
                                after |-> <<AGENTS, AGENT_IP_MAP>>]
             ELSE /\ AGENTS' = m[1]
                  /\ AGENT_IP_MAP' = AGENT_IP_MAP
                  /\ called' = [op |-> "swap", hostUp |-> hostUp, cs |-> containers,
                                before |-> <<AGENTS, AGENT_IP_MAP>>, after |-> m]
    /\ UNCHANGED containers
    /\ RegistryStep

\* `AGENT_IP_MAP = ip_map` (line 116), the lock released, the function returns.
refresh_agents_swapped ==
    /\ called.op = "swap"
    /\ AGENT_IP_MAP' = called.after[2]
    /\ called' = [op |-> "refresh_agents", swapped |-> TRUE,
                  hostUp |-> called.hostUp, cs |-> called.cs,
                  before |-> called.before, after |-> called.after]
    /\ UNCHANGED <<AGENTS, containers>>
    /\ RegistryStep

\* A coroutine looks up both maps without an await in between, as the proxy
\* handler does with AGENT_IP_MAP.get(peer_ip) and the invoke handler with
\* `agent not in AGENTS`.  `last` is the refresh that ran before it.
lookup ==
    /\ Scheduled
    /\ called' = [op |-> "lookup", agents |-> AGENTS, ip_map |-> AGENT_IP_MAP,
                  last |-> IF called.op = "lookup" THEN called.last ELSE called]
    /\ UNCHANGED <<AGENTS, AGENT_IP_MAP, containers>>
    /\ RegistryStep

\* Somebody stops a running container on the host (docker stop).
docker_stop(name) ==
    /\ client
    /\ name \in DOMAIN containers /\ containers[name] = "running"
    /\ containers' = [containers EXCEPT ![name] = "exited"]
    /\ UNCHANGED <<AGENTS, AGENT_IP_MAP, client, LAST_SEEN, clock, called>>
    /\ RegistryFrame

InitRegistry ==
    /\ InitEngine /\ ~DB_POOL
    /\ InitHost(HostStates)
    /\ InitEgress /\ InitVerifier /\ InitConfig
NextRegistry ==
    \/ refresh_agents
    \/ refresh_agents_swapped
    \/ lookup
    \/ \E n \in RegistryNames : docker_start(n)
    \/ \E n \in RegistryNames : docker_stop(n)
SpecRegistry == InitRegistry /\ [][NextRegistry]_vars

\* ------------------------------------------------------------------ the CONNECT tunnel
\* The two ends of a tunnel; a pipe is named after the end it reads from.
Ends == {"client", "upstream"}
Other(end) == IF end = "client" THEN "upstream" ELSE "client"
TunnelBytes == {"a", "b"}

TunnelFrame ==
    UNCHANGED <<DB_POOL, storeVars, registryVars, LAST_SEEN, artifacts, clock, pc, req,
                local, reply, oversized, uploadVars, EGRESS_ALLOWLIST, decided,
                verifierVars, configVars, lifespan, called, answered, dbFaults>>

\* The connection once "200 Connection Established" is written and the two
\* _pipe coroutines are gathered (proxy.py lines 149-160).
\*   buf: bytes an end sent that its reader has not returned yet
\*   eof: the end closed its connection
\*   closed: the gateway closed its writer to that end
\*   read: what reader.read returned so far; written: what went to writer.write
\*   pipe: where each _pipe is, and the data it holds
Established ==
    [handled |-> TRUE,
     buf |-> [e \in Ends |-> <<>>], eof |-> [e \in Ends |-> FALSE],
     closed |-> [e \in Ends |-> FALSE],
     read |-> [e \in Ends |-> <<>>], written |-> [e \in Ends |-> <<>>],
     pipe |-> [e \in Ends |-> [at |-> "read", data |-> <<>>]],
     handler |-> "gather"]

\* An end sends one byte, or closes its connection.
PeerSend(end) ==
    /\ ~conn.eof[end]
    /\ Len(conn.read[end]) + Len(conn.buf[end]) < MaxTunnelBytes
    /\ \E b \in TunnelBytes : conn' = [conn EXCEPT !.buf[end] = Append(@, b)]
    /\ TunnelFrame
PeerClose(end) ==
    /\ ~conn.eof[end]
    /\ conn' = [conn EXCEPT !.eof[end] = TRUE]
    /\ TunnelFrame

\* data = await reader.read(4096): what is buffered, or b"" at the end of the
\* stream (the end closed, or the gateway closed this connection), which
\* leaves the loop (lines 25-28).
PipeRead(src) ==
    /\ conn.pipe[src].at = "read"
    /\ IF conn.buf[src] # <<>>
       THEN conn' = [conn EXCEPT !.buf[src] = <<>>,
                                 !.read[src] = @ \o conn.buf[src],
                                 !.pipe[src] = [at |-> "write", data |-> conn.buf[src]]]
       ELSE /\ conn.eof[src] \/ conn.closed[src]
            /\ conn' = [conn EXCEPT !.pipe[src] = [at |-> "close", data |-> <<>>]]
    /\ TunnelFrame

\* writer.write(data); await writer.drain() (lines 29-30).  On a connection the
\* gateway closed, drain raises and the loop is left (lines 31-32).
PipeWrite(src) ==
    /\ conn.pipe[src].at = "write"
    /\ conn' = IF conn.closed[Other(src)]
               THEN [conn EXCEPT !.pipe[src] = [at |-> "close", data |-> <<>>]]
               ELSE [conn EXCEPT !.written[Other(src)] = @ \o conn.pipe[src].data,
                                 !.pipe[src] = [at |-> "read", data |-> <<>>]]
    /\ TunnelFrame

\* A pipe that ends without closing its writer.
PipeCloseNothing(src) ==
    /\ conn.pipe[src].at = "close"
    /\ conn' = [conn EXCEPT !.pipe[src] = [at |-> "done", data |-> <<>>]]
    /\ TunnelFrame
\* finally: writer.close(); await writer.wait_closed() (lines 33-38).
PipeClose(src) ==
    /\ conn.pipe[src].at = "close"
    /\ conn' = [conn EXCEPT !.closed[Other(src)] = TRUE,
                            !.pipe[src] = [at |-> "done", data |-> <<>>]]
    /\ TunnelFrame

\* asyncio.gather returned; finally: writer.close() (lines 162-168).
HandlerFinish ==
    /\ conn.handler = "gather"
    /\ \A e \in Ends : conn.pipe[e].at = "done"
    /\ conn' = [conn EXCEPT !.closed["client"] = TRUE, !.handler = "done"]
    /\ TunnelFrame

InitTunnel ==
    /\ InitQuiet
    /\ EGRESS_ALLOWLIST = EmptyMap /\ decided = NoDecision
    /\ InitVerifier
    /\ conn = Established
NextTunnel ==
    \/ \E e \in Ends : PeerSend(e)
    \/ \E e \in Ends : PeerClose(e)
    \/ \E e \in Ends : PipeRead(e)
    \/ \E e \in Ends : PipeWrite(e)
    \/ \E e \in Ends : PipeClose(e)
    \/ HandlerFinish
\* The event loop runs every coroutine that can go on; what the ends do is
\* up to them.
FairTunnel ==
    /\ \A e \in Ends : WF_vars(PipeRead(e)) /\ WF_vars(PipeWrite(e)) /\ WF_vars(PipeClose(e))
    /\ WF_vars(HandlerFinish)
SpecTunnel == InitTunnel /\ [][NextTunnel]_vars /\ FairTunnel

\* ------------------------------------------------------------------ startup and shutdown
\* _graceful_shutdown: close_pool(), PROXY_SERVER.close(), client.close().  The
\* tasks startup_event created are not kept anywhere and nothing cancels
\* them; api_client is left alone.
Shutdown ==
    /\ lifespan.phase = "serving"
    /\ lifespan' = [lifespan EXCEPT
                      !.phase = "stopped",
                      !.DB_POOL = IF @ = "open" THEN "closed" ELSE @,
                      !.PROXY_SERVER = "closed",
                      !.client = IF @ = "open" THEN "closed" ELSE @]
    /\ UNCHANGED <<registryVars, LAST_SEEN, clock, called>>
    /\ UNCHANGED <<DB_POOL, storeVars, egressVars, verifierVars, configVars, uploadVars,
                   artifacts, pc, req, local, reply, oversized, answered, dbFaults>>

\* One turn of the loop of watch_docker, of idle_reaper: the task is there.
WatchTick == "watch_docker" \in lifespan.tasks /\ WatchDocker
ReaperTick == "idle_reaper" \in lifespan.tasks /\ _check_and_stop_idle_containers

InitShutdown ==
    /\ InitEngine
    /\ InitHost(HostStates)
    /\ InitEgress /\ InitVerifier
    /\ CONFIGURED_AGENT_NAMES = {"foo"}
    /\ IDLE_TIMEOUTS = [n \in {"foo"} |-> 1]
    /\ called = NoCall
NextShutdown ==
    \/ Shutdown
    \/ WatchTick
    \/ ReaperTick
    \/ \E a \in RegistryNames : start_agent(a)
    \/ Elapse
SpecShutdown == InitShutdown /\ [][NextShutdown]_vars

\* ------------------------------------------------------------------ the reaper and running invocations
\* A gateway with the in-memory store whose agent foo runs and has an idle
\* timeout of one minute; the clock counts minutes.
InitBusy ==
    /\ InitEngine /\ ~DB_POOL
    /\ InitHost([ContainerNames -> {"running"}]) /\ client
    /\ InitEgress /\ InitVerifier
    /\ CONFIGURED_AGENT_NAMES = {"foo"}
    /\ IDLE_TIMEOUTS = [n \in {"foo"} |-> 1]
    /\ called = NoCall
NextBusy ==
    \/ \E r \in Requests : Invoke(r)
    \/ ReaperTick
    \/ Tick
SpecBusy == InitBusy /\ [][NextBusy]_vars

\* ------------------------------------------------------------------ POST /egress
\* The X-Agent-Name header of the request ("" when there is none), the JSON
\* body: no JSON, no url, or a url.
EgressHeaders == {"", "foo", "bar"}
EgressUrls == {Https \o HostApi, Https \o HostApi \o <<"/", "x">>, Https \o HostOther}
EgressBodies ==
    {[json |-> FALSE, url |-> <<>>], [json |-> TRUE, url |-> <<>>]}
    \cup {[json |-> TRUE, url |-> u] : u \in EgressUrls}

\* request.headers.get("X-Agent-Name") or AGENT_IP_MAP.get(request.client.host)
EgressAgent(header, by_ip) == IF header # "" THEN header ELSE by_ip

\* proxy_egress: the status it answers; fetch: the upstream request went
\* through (its status, 200 here, is passed on).  re.error leaves the handler: 500.
Egressed(peer_ip, header, body, fetch) ==
    LET by_ip == ByIP(peer_ip)
        agent_name == EgressAgent(header, by_ip)
        status == IF agent_name = "" THEN 400
                  ELSE IF ~body.json THEN 400
                  ELSE IF body.url = <<>> THEN 400
                  ELSE LET allowed == is_allowed(agent_name, body.url)
                       IN IF allowed = "raise" THEN 500
                          ELSE IF allowed = "deny" THEN 403
                          ELSE IF ~fetch THEN 502
                          ELSE 200
    IN [op |-> "proxy_egress", peer_ip |-> peer_ip, by_ip |-> by_ip, header |-> header,
        body |-> body, agent_name |-> agent_name, status |-> status]

proxy_egress ==
    /\ \E peer_ip \in PeerIPs, header \in EgressHeaders, body \in EgressBodies,
          fetch \in BOOLEAN :
          called' = Egressed(peer_ip, header, body, fetch)
    /\ UNCHANGED <<DB_POOL, storeVars, registryVars, LAST_SEEN, artifacts, clock, pc, req,
                   local, reply, oversized, uploadVars, egressVars, verifierVars,
                   configVars, lifespan, answered, dbFaults>>

NextEgress ==
    \/ proxy_egress
    \/ WatchDocker
    \/ \E a \in AgentNames : start_agent(a)
    \/ \E a \in AgentNames : stop_agent(a)
SpecEgress == InitProxy /\ [][NextEgress]_vars

\* ------------------------------------------------------------------ GET /status, GET /result
get_status(thread_id) ==
    LET job == get_job(thread_id)
    IN IF job = None_ THEN Reply(404, Str("unknown thread_id"))
       ELSE Reply(200, [thread_id |-> thread_id, state |-> Get(job, "state"),
                        progress |-> Get(job, "progress"), error |-> Get(job, "error")])
get_result(thread_id) ==
    LET job == get_job(thread_id)
    IN IF job = None_ THEN Reply(404, Str("unknown thread_id"))
       ELSE Reply(200, [thread_id |-> thread_id, result |-> Get(job, "result"),
                        error |-> Get(job, "error")])

\* ------------------------------------------------------------------ properties
Job(r) == get_job(Uuid(r))
HasJob(r) == Job(r) # None_
JobState(r) == Get(Job(r), "state")
IsState(r, st) == JobState(r) = Str(st)
IsTerminal(r) == IsState(r, INV_STATE_COMPLETED) \/ IsState(r, INV_STATE_FAILED)
Finished(r) == pc[r] = "done"
Forwarded(r) == answered[r] # NoAnswer
\* The agent answered HTTP 200 with a body that is valid JSON.
Ok200Json(out) == ~out.exc /\ out.status_code = 200 /\ out.body.parsed # NotJson

\* C1: the stored state of a job only moves queued -> running -> completed or
\* queued -> running -> failed; a completed or failed job never changes state.
AllowedTransitions ==
    {<<None_, Str(INV_STATE_QUEUED)>>,
     <<Str(INV_STATE_QUEUED), Str(INV_STATE_RUNNING)>>,
     <<Str(INV_STATE_RUNNING), Str(INV_STATE_COMPLETED)>>,
     <<Str(INV_STATE_RUNNING), Str(INV_STATE_FAILED)>>}
C1_MonotoneStates ==
    [][\A r \in Requests :
          JobState(r)' # JobState(r) => <<JobState(r), JobState(r)'>> \in AllowedTransitions]_vars

\* C2: a completed job has a result and no error; a failed job has an error.
C2_TerminalFields ==
    \A r \in Requests :
        /\ IsState(r, INV_STATE_COMPLETED) =>
              Get(Job(r), "result") # None_ /\ Get(Job(r), "error") = None_
        /\ IsState(r, INV_STATE_FAILED) => Get(Job(r), "error") # None_

\* C3: a queued job has started_at, ended_at, result and error unset, also
\* after a progress post and after a staging failure that aborted the request.
C3_QueuedFields ==
    \A r \in Requests :
        IsState(r, INV_STATE_QUEUED) =>
            \A k \in {"started_at", "ended_at", "result", "error"} : Get(Job(r), k) = None_
C3_QueuedAfterAbortAndProgress ==
    \E r \in Requests :
        /\ IsState(r, INV_STATE_QUEUED)
        /\ reply[r].status = 413
        /\ Get(Job(r), "progress") # None_

\* C4: a running job has started_at set and ended_at unset; a completed or
\* failed job has both set, with ended_at >= started_at.
C4_Timestamps ==
    \A r \in Requests :
        /\ IsState(r, INV_STATE_RUNNING) =>
              Get(Job(r), "started_at") # None_ /\ Get(Job(r), "ended_at") = None_
        /\ IsTerminal(r) =>
              /\ Get(Job(r), "started_at") # None_
              /\ Get(Job(r), "ended_at") # None_
              /\ Get(Job(r), "ended_at").t >= Get(Job(r), "started_at").t
C4_EndedAfterStarted ==
    \E r \in Requests :
        /\ IsTerminal(r)
        /\ Get(Job(r), "started_at") # None_
        /\ Get(Job(r), "ended_at") # None_
        /\ Get(Job(r), "ended_at").t > Get(Job(r), "started_at").t

\* C5: every inserted job has reached completed or failed once its handler
\* and its worker have ended, a failed one carries an error, and with the
\* durable store a response entry of the thread is in the audit log.
HasResponseEntry(r) ==
    \E i \in 1..Len(audit_log) :
        audit_log[i].thread_id = Uuid(r) /\ audit_log[i].action = "invoke_response"
C5_AcceptedJobsSettle ==
    \A r \in Requests :
        (Finished(r) /\ HasJob(r)) =>
            /\ IsTerminal(r)
            /\ IsState(r, INV_STATE_FAILED) => Get(Job(r), "error") # None_
            /\ DB_POOL => HasResponseEntry(r)

\* C6: a sync invocation ends completed with the agent's JSON as result and
\* the caller gets that JSON (thread_id added when missing) exactly when the
\* agent answered 200 with valid JSON; otherwise it ends failed with a
\* non-empty message, the caller gets a 5xx and no result is stored.  Stated
\* for the in-memory backend, whose operations never raise.
C6_SyncResult ==
    \A r \in Requests :
        (~DB_POOL /\ req[r].sync_flag /\ Finished(r) /\ Forwarded(r)) =>
            LET out == answered[r]
                job == Job(r)
            IN IF Ok200Json(out)
               THEN /\ IsState(r, INV_STATE_COMPLETED)
                    /\ Get(job, "result") \in
                          {out.body.parsed} \cup
                          (IF out.body.parsed.kind = "dict"
                           THEN {SetDefaultThreadId(out.body.parsed, Uuid(r))} ELSE {})
                    /\ reply[r].status = 200
                    /\ out.body.parsed.kind = "dict" =>
                          reply[r].body = SetDefaultThreadId(out.body.parsed, Uuid(r))
               ELSE /\ IsState(r, INV_STATE_FAILED)
                    /\ Get(job, "error").kind = "dict"
                    /\ Get(job, "error").v.message # Str("")
                    /\ reply[r].status >= 500
                    /\ Get(job, "result") = None_

\* C7: an async invocation whose agent answered with status >= 400 or a body
\* that is no JSON ends failed with an error object {status, body, message}:
\* status the agent's, body at most 500 characters of the text, message the
\* allowlist message exactly for 403; after an exception the error is an
\* object with a message.
AllowlistMessage == Str("agent attempted outbound request to non-allowlisted URL")
C7_AsyncErrorObject ==
    \A r \in Requests :
        (~req[r].sync_flag /\ Finished(r) /\ Forwarded(r) /\ dbFaults = 0
           /\ (answered[r].exc \/ answered[r].status_code >= 400
                 \/ answered[r].body.parsed = NotJson)) =>
            LET out == answered[r]
                err == Get(Job(r), "error")
            IN /\ IsState(r, INV_STATE_FAILED)
               /\ err.kind = "dict"
               /\ "message" \in DOMAIN err.v
               /\ ~out.exc =>
                     /\ err.v.status = out.status_code
                     /\ err.v.body.of = out.body.parsed
                     /\ err.v.body.len <= 500
                     /\ (err.v.message = AllowlistMessage) <=> (out.status_code = 403)

\* C8: for a completed invocation GET /result returns as result the JSON
\* object the agent returned (a structured value), and error null.
C8_ResultIsObject ==
    \A r \in Requests :
        (Finished(r) /\ IsState(r, INV_STATE_COMPLETED) /\ Forwarded(r)
           /\ ~answered[r].exc /\ answered[r].body.parsed.kind = "dict") =>
            LET got == get_result(Uuid(r))
                obj == answered[r].body.parsed
            IN /\ got.status = 200
               /\ got.body.result \in {obj, SetDefaultThreadId(obj, Uuid(r))}
               /\ got.body.error = None_

\* C9: the request that is answered 404 or 400 leaves the job store and the
\* audit log as they were.
C9_RejectedLeavesStore ==
    [][\A r \in Requests :
          (reply[r] = NoReply /\ reply'[r].status \in {400, 404}) =>
              (invocations' = invocations /\ JOBS' = JOBS /\ audit_log' = audit_log)]_vars
C9_RejectedKnownAgent ==
    \E r \in Requests :
        /\ reply[r].status = 400
        /\ "foo" \in DOMAIN LAST_SEEN
        /\ ~HasJob(r)

\* C10: a request with an uploaded file larger than MAX_BYTES (one whose name
\* is not skipped) is answered 413 and leaves no file staged, wherever the
\* file stands among the uploads.
StagingOver(r) == pc[r] \notin {"idle", "insert", "audit_request", "stage"}
C10_OversizedLeavesNothing ==
    \A r \in Requests :
        (oversized[r] /\ StagingOver(r)) =>
            reply[r].status = 413 /\ DOMAIN artifacts[r] = {}

\* C11: once an accepted invocation is past staging, hence before and after it
\* is forwarded, the out directory exists and every uploaded file whose
\* basename is not skipped is in the in directory under its basename with the
\* uploaded data.
Accepted(r) == StagingOver(r) /\ HasJob(r) /\ reply[r].status # 413
StagedAs(r, up) ==
    /\ Basename(up.filename) \in DOMAIN artifacts[r]
    /\ artifacts[r][Basename(up.filename)] = up.size
C11_EveryFileStaged ==
    \A r \in Requests :
        Accepted(r) =>
            /\ {"in", "out"} \subseteq dirs[r]
            /\ \A i \in 1..Len(uploaded[r]) :
                  ~Skipped(Basename(uploaded[r][i].filename)) => StagedAs(r, uploaded[r][i])
\* C11 as amended: the same for every uploaded file whose basename no later
\* upload of the request has; of two uploads with one basename the later is
\* the one staged.
C11_LastOfEachNameStaged ==
    \A r \in Requests :
        Accepted(r) =>
            /\ {"in", "out"} \subseteq dirs[r]
            /\ \A i \in 1..Len(uploaded[r]) :
                  (/\ ~Skipped(Basename(uploaded[r][i].filename))
                   /\ \A j \in (i + 1)..Len(uploaded[r]) :
                         Basename(uploaded[r][j].filename) # Basename(uploaded[r][i].filename))
                  => StagedAs(r, uploaded[r][i])
C11_TwoFilesForwarded ==
    \E r \in Requests :
        /\ Forwarded(r)
        /\ uploaded[r] = <<UploadFile(<<"c.csv">>, 0), UploadFile(<<"x", "a.txt">>, 5)>>
        /\ DOMAIN artifacts[r] = {"c.csv", "a.txt"}

\* C12: a progress post on an existing job, whatever its state, leaves the
\* state, started_at, ended_at, result and error of every job as they were.
EngineFields == {"state", "started_at", "ended_at", "result", "error"}
C12_ProgressWritesOnlyProgress ==
    [][\A t \in Threads, p \in ProgressValues :
          post_progress(t, p) =>
              \A r \in Requests, k \in EngineFields : Get(Job(r), k)' = Get(Job(r), k)]_vars
C12_ProgressOnTerminalJob ==
    \E r \in Requests :
        /\ IsTerminal(r)
        /\ Finished(r)
        /\ Get(Job(r), "progress") # None_

\* C13: a progress post on a job that is completed or failed is ignored: the
\* stored progress stays as it was.
C13_ProgressIgnoredAfterEnd ==
    [][\A r \in Requests, p \in ProgressValues :
          (IsTerminal(r) /\ post_progress(Uuid(r), p)) =>
              Get(Job(r), "progress")' = Get(Job(r), "progress")]_vars

\* C16: for a pattern of literal characters and "*", both matchers allow a URL
\* exactly when the pattern glob-matches it from its start: "*" stands for any
\* sequence of characters, every other character for itself.
RECURSIVE GlobMatches(_, _, _, _)
GlobMatches(pattern, i, url, j) ==
    IF i > Len(pattern) THEN TRUE
    ELSE IF pattern[i] = "*"
    THEN GlobMatches(pattern, i + 1, url, j)
         \/ (j <= Len(url) /\ GlobMatches(pattern, i, url, j + 1))
    ELSE j <= Len(url) /\ url[j] = pattern[i] /\ GlobMatches(pattern, i + 1, url, j + 1)
C16_DecisionIsGlob ==
    decided # NoDecision =>
        LET want == IF GlobMatches(EGRESS_ALLOWLIST["foo"][1], 1, decided.url, 1)
                    THEN "allow" ELSE "deny"
        IN decided.proxy = want /\ decided.egress = want

\* C14: the proxy answers 200 and holds an upstream connection only when the
\* identified agent's allowlist allows the destination; a denied destination
\* is answered 403 and no upstream is dialled; an agent with an empty or no
\* allowlist is denied; an allowed destination that cannot be dialled is
\* answered 502.
IdentifiedConnect ==
    /\ conn.handled /\ conn.line.parts = 3 /\ conn.header.colon
    /\ conn.line.method = "CONNECT" /\ conn.agent # ""
C14_UpstreamOnlyWhenAllowed ==
    conn.handled =>
        LET allowed == _is_allowed(conn.agent, conn.url)
        IN /\ (conn.response = 200 \/ conn.upstream # "none") =>
                 IdentifiedConnect /\ allowed = "allow"
           /\ conn.response = 200 <=> conn.upstream = "open"
           /\ (IdentifiedConnect /\ allowed = "deny") =>
                 conn.response = 403 /\ conn.upstream = "none"
           /\ (IdentifiedConnect /\ PatternsOf(conn.agent) = <<>>) => conn.response = 403
           /\ (IdentifiedConnect /\ allowed = "allow" /\ ~conn.dial) => conn.response = 502
C14_TunnelOpened == conn.handled /\ conn.response = 200 /\ conn.upstream = "open"

\* C15: with foo's allowlist ["https://api.example.com/*"], a CONNECT from
\* foo's address to api.example.com:443 is answered 200 (the upstream being
\* reachable) and one to other.example.com:443 is answered 403.
C15_ApiAllowedOtherDenied ==
    (/\ IdentifiedConnect /\ conn.by_ip = "foo" /\ conn.dial
     /\ EGRESS_ALLOWLIST = [a \in {"foo"} |-> <<Https \o HostApi \o <<"/", "*">>>>]) =>
        /\ conn.line.target = Target(HostApi, TRUE, "443") => conn.response = 200
        /\ conn.line.target = Target(HostOther, TRUE, "443") => conn.response = 403

\* C17: two successive connections from one address that is bound to an
\* agent both times, with the same request line and the same upstream, get
\* the same answer whatever header each sends.
C17_HeaderIgnoredForKnownIP ==
    [][(/\ conn.handled /\ conn'.handled
        /\ conn.by_ip # "" /\ conn'.by_ip = conn.by_ip /\ conn'.peer_ip = conn.peer_ip
        /\ conn'.line = conn.line /\ conn'.dial = conn.dial
        /\ conn.header.colon /\ conn'.header.colon) =>
            conn'.response = conn.response /\ conn'.upstream = conn.upstream]_vars
C17_KnownIPWithOtherName ==
    /\ IdentifiedConnect /\ conn.by_ip = "foo"
    /\ conn.header.v = "bar" /\ _is_allowed("bar", conn.url) = "allow"
    /\ conn.response = 403

\* C18: a connection that names no agent (unknown address, no X-Agent-Name
\* header) is answered 403 whatever its method, and 405 is answered only to
\* an identified agent.
C18_IdentificationBeforeMethod ==
    (conn.handled /\ conn.line.parts = 3 /\ conn.header.colon) =>
        /\ conn.agent = "" => conn.response = 403
        /\ conn.response = 405 => conn.agent # ""

\* C19: in the audit log the first entry has prev_hash zero, every later entry has as
\* prev_hash the entry_hash of the entry before it, and every entry's entry_hash is the
\* hash of its prev_hash and its own columns.  A column the INSERT does not name reads
\* as None.
C19_AuditLogIsChained ==
    \A i \in 1..Len(audit_log) :
        LET prev == IF i = 1 THEN [kind |-> "hash", zero |-> TRUE]
                    ELSE Get(audit_log[i - 1], "entry_hash")
        IN  /\ Get(audit_log[i], "prev_hash") = prev
            /\ Get(audit_log[i], "entry_hash")
                   = [kind |-> "hash", prev |-> prev, of |-> audit_log[i]]

\* C20: a verification of a chain with no overwritten entry_hash reports verified
\* true; one of a chain where an entry_hash was overwritten reports verified false,
\* compromised_count at least 1 and the overwritten entry among compromised_entries,
\* which are never more than 10.
C20_OverwriteIsReported ==
    report.status = 200 =>
        LET T == {i \in 1..Len(all_entries) : ~Untouched(all_entries[i])}
        IN  /\ T = {} => report.body.verified
            /\ T # {} =>
                 /\ ~report.body.verified
                 /\ report.body.compromised_count >= 1
                 /\ \A i \in T :
                       \E k \in 1..Len(report.body.compromised_entries) :
                          report.body.compromised_entries[k].timestamp
                              = all_entries[i].timestamp
            /\ Len(report.body.compromised_entries) <= 10

AuditPositions == {"audit_request", "sync_audit_ok", "sync_audit_fail",
                   "worker_audit_fail", "worker_audit_ok", "worker_audit_except"}
\* Where the handler or the worker stands, what the caller holds and what the
\* forwarding step keeps once the audit insert at pc[r] has gone through.
AfterAudit(r) ==
    CASE pc[r] = "audit_request" ->
           [pc |-> "stage", reply |-> reply[r], local |-> local[r]]
      [] pc[r] = "sync_audit_ok" ->
           IF local[r].resp_json.kind = "dict"
           THEN [pc |-> "done",
                 reply |-> Reply(200, SetDefaultThreadId(local[r].resp_json, Uuid(r))),
                 local |-> NoLocal]
           ELSE [pc |-> "sync_fail", reply |-> reply[r],
                 local |-> Exc(Str("AttributeError"))]
      [] pc[r] = "sync_audit_fail" ->
           [pc |-> "done", reply |-> Reply(500, None_), local |-> NoLocal]
      [] OTHER -> [pc |-> "done", reply |-> reply[r], local |-> NoLocal]

\* C21: an audit insert that fails changes nothing but the audit log: the step
\* leaves the handler or worker where a successful insert leaves it, with the
\* same response for the caller and the same job record.
C21_AuditFailureNotPropagated ==
    [][\A r \in Requests :
          (pc[r] \in AuditPositions /\ pc'[r] # pc[r] /\ dbFaults' # dbFaults) =>
              /\ [pc |-> pc'[r], reply |-> reply'[r], local |-> local'[r]] = AfterAudit(r)
              /\ Job(r)' = Job(r)
              /\ audit_log' = audit_log]_vars
\* An invocation whose response entry was lost ended completed all the same.
C21_CompletedWithoutResponseEntry ==
    \E r \in Requests :
        /\ DB_POOL /\ dbFaults = 1 /\ Finished(r)
        /\ IsState(r, INV_STATE_COMPLETED)
        /\ Len(audit_log) = 1

EntriesOf(r) == SelectSeq(audit_log, LAMBDA e : e.thread_id = Uuid(r))
\* C22: with the durable store and no store operation failing, an invocation
\* that ended in a terminal state has exactly two audit entries, the request entry
\* (actor gateway, status_code 0) before the response entry (actor = the agent);
\* when every invocation made ended so, the log holds twice as many entries.
C22_RequestThenResponse ==
    /\ \A r \in Requests :
          (DB_POOL /\ dbFaults = 0 /\ Finished(r) /\ IsTerminal(r)) =>
              /\ Len(EntriesOf(r)) = 2
              /\ EntriesOf(r)[1].action = "invoke_request"
              /\ EntriesOf(r)[1].actor = "gateway"
              /\ EntriesOf(r)[1].status_code = 0
              /\ EntriesOf(r)[2].action = "invoke_response"
              /\ EntriesOf(r)[2].actor = req[r].agent
    /\ (DB_POOL /\ dbFaults = 0
        /\ \A r \in Requests : pc[r] = "idle" \/ (Finished(r) /\ IsTerminal(r)))
         => Len(audit_log) = 2 * Cardinality({r \in Requests : Finished(r)})
C22_TerminalWithStore ==
    \E r \in Requests :
        DB_POOL /\ dbFaults = 0 /\ Finished(r) /\ IsState(r, INV_STATE_FAILED)

\* C23: the three answers of POST /agents computed from one running map and one
\* container listing satisfy all = running + stopped, running and stopped
\* disjoint, and stopped = (listed containers + configured names) - running.
C23_AllIsRunningPlusStopped ==
    called.op = "list_agents_filtered" =>
        LET sel(st) == Range(FilteredAgents(st, called.running_set, called.all_ctrs,
                                            CONFIGURED_AGENT_NAMES))
        IN  /\ sel("all") = sel("running") \cup sel("stopped")
            /\ sel("running") \cap sel("stopped") = {}
            /\ sel("stopped")
                  = (called.all_ctrs \cup CONFIGURED_AGENT_NAMES) \ sel("running")

C25_TrueOnlyIfRunning ==
    [][\A a \in EnsureNames :
          ensure_agent_running(a) =>
              /\ called'.result =>
                    /\ a \in DOMAIN containers' /\ containers'[a] = "running"
                    /\ a \in DOMAIN Refreshed(TRUE, containers', AGENTS', AGENT_IP_MAP')[1]
              /\ (client /\ ~called'.hostUp) => ~called'.result
              /\ a \notin DOMAIN containers => ~called'.result
              /\ (a \in DOMAIN containers' /\ containers'[a] # "running")
                    => ~called'.result]_vars

\* C26: a second ensure_agent_running(x) right after the first, the host
\* answering the same way, returns what the first returned and changes neither
\* the containers nor the registry.
C26_EnsureTwiceIsOnce ==
    [][\A a \in EnsureNames :
          (/\ called.op = "ensure_agent_running" /\ called.agent = a
           /\ called.after = containers
           /\ ensure_agent_running(a)
           /\ called'.hostUp = called.hostUp /\ called'.up = called.up) =>
              /\ called'.result = called.result
              /\ containers' = containers
              /\ AGENTS' = AGENTS /\ AGENT_IP_MAP' = AGENT_IP_MAP]_vars
\* The second of two calls in a row for a container the first one started.
C26_SecondCallAfterStart ==
    /\ called.op = "ensure_agent_running" /\ called.nth = 2
    /\ called.result
    /\ called.agent \in DOMAIN containers /\ containers[called.agent] = "running"
    /\ called.before = called.after

\* C27: on a tick whose listing went through, a running container is asked to
\* stop exactly when it has a recorded last activity that is at least T minutes
\* old, T being the agent's idle timeout or the global default.
C27_StoppedIffIdle ==
    [][_check_and_stop_idle_containers =>
          (called'.listed =>
              \A n \in RegistryNames :
                  n \in called'.asked <=>
                     /\ n \in DOMAIN containers /\ containers[n] = "running"
                     /\ n \in DOMAIN LAST_SEEN
                     /\ clock - LAST_SEEN[n].t >=
                           (IF n \in DOMAIN IDLE_TIMEOUTS THEN IDLE_TIMEOUTS[n]
                            ELSE GLOBAL_IDLE_TIMEOUT))]_vars
\* A tick that stops the agent with the default timeout and spares a running
\* container that was never invoked.
C27_DefaultTimeoutReached ==
    /\ called.op = "reaper" /\ called.listed
    /\ "bar" \in called.asked
    /\ called.now - LAST_SEEN["bar"].t = GLOBAL_IDLE_TIMEOUT
    /\ "foo" \in called.running /\ "foo" \notin DOMAIN LAST_SEEN

\* C28: after a tick of the reaper, no agent that the tick stopped has an
\* activity record left.
C28_StoppedAgentForgotten ==
    [][_check_and_stop_idle_containers =>
          \A n \in called'.stopped : n \notin DOMAIN LAST_SEEN']_vars

\* The record of thread_id in the store as it was before the last call.
JobBefore(thread_id) ==
    LET store == IF DB_POOL THEN called.before[1] ELSE called.before[2]
    IN  IF thread_id \in DOMAIN store THEN store[thread_id] ELSE None_

\* C29: an insert for a thread_id that is in the store fails and an update for a
\* thread_id that is not in the store fails, and both leave the store as it was,
\* with the durable and with the in-memory store.
C29_DuplicateAndNotFound ==
    /\ (called.op = "insert_job_row" /\ called.existed) =>
          called.raised /\ <<invocations, JOBS>> = called.before
    /\ (called.op = "update_job_record" /\ ~called.existed) =>
          called.raised /\ <<invocations, JOBS>> = called.before

\* C30: get_job after an insert that went through gives the inserted agent,
\* user_token, state and payload (the payload as it was given or as its JSON
\* text); get_job after an update of a stored record that went through gives the
\* record as it was with the updated fields replaced.
C30_GetAfterInsertAndUpdate ==
    /\ (called.op = "insert_job_row" /\ ~called.raised) =>
          LET job == get_job(called.thread_id)
          IN  /\ job # None_
              /\ Get(job, "thread_id") = called.thread_id
              /\ Get(job, "agent") = Str("foo")
              /\ Get(job, "user_token") = Str(<<"Bearer ", "tok">>)
              /\ Get(job, "state") = Str(INV_STATE_QUEUED)
              /\ Get(job, "payload") \in {called.payload, json_dumps(called.payload)}
    /\ (called.op = "update_job_record" /\ ~called.raised /\ called.existed) =>
          LET job == get_job(called.thread_id)
              was == JobBefore(called.thread_id)
          IN  /\ job # None_
              /\ DOMAIN job = DOMAIN was \cup DOMAIN called.fields
              /\ \A k \in DOMAIN job :
                    job[k] = IF k \in DOMAIN called.fields THEN called.fields[k]
                             ELSE was[k]

\* ------------------------------------------------------------------ fallback store
\* The invocation of request r got past the bearer check (its insert was due).
InsertDue(r) == req[r] # NoReq /\ pc[r] # "insert"

\* C31: an invocation whose insert was due is in the job store, GET /status and
\* GET /result answer 200 for it, whether the durable store was unreachable at
\* startup or failed during an operation.
C31_FallbackServesJobs ==
    \A r \in Requests :
        InsertDue(r) =>
            /\ HasJob(r)
            /\ get_status(Uuid(r)).status = 200
            /\ get_result(Uuid(r)).status = 200

\* C32: a coroutine that looks up both maps after a refresh holds the two maps
\* that were there before that refresh or the two maps the refresh made, never
\* one map of each.
C32_ReadersSeeOneSnapshot ==
    (called.op = "lookup" /\ called.last.op \in {"swap", "refresh_agents"}) =>
        <<called.agents, called.ip_map>> \in {called.last.before, called.last.after}
\* A lookup right after a refresh that changed both maps.
C32_LookupAfterSwap ==
    /\ called.op = "lookup"
    /\ called.last.op = "refresh_agents" /\ called.last.swapped
    /\ called.last.before[1] # called.last.after[1]
    /\ called.last.before[2] # called.last.after[2]
    /\ called.agents = called.last.after[1]

C34_FailedQueryKeepsMaps ==
    (called.op = "refresh_agents" /\ ~called.hostUp) =>
        <<AGENTS, AGENT_IP_MAP>> = called.before

\* What a pipe read and has not written yet.
InHand(src) == IF conn.pipe[src].at = "write" THEN conn.pipe[src].data ELSE <<>>
TunnelEnded ==
    /\ conn.handler = "done"
    /\ \A e \in Ends : conn.pipe[e].at = "done" /\ conn.closed[e]

\* C35: in a tunnel, what was written to one end is what was read from the
\* other end, in order, up to the data a pipe holds between its read and its
\* write; and once an end has closed its connection, both pipes end, the
\* gateway closes both connections and the handler returns.
C35_TunnelCopiesAndEnds ==
    /\ [](\A e \in Ends : conn.read[e] = conn.written[Other(e)] \o InHand(e))
    /\ \A e \in Ends : conn.eof[e] ~> TunnelEnded
\* The tunnel ended after bytes went both ways and the client closed.
C35_ClosedAfterTraffic ==
    /\ TunnelEnded
    /\ conn.eof["client"] /\ ~conn.eof["upstream"]
    /\ \A e \in Ends : Len(conn.written[e]) = MaxTunnelBytes

\* C36: once the shutdown handler has run, no periodic task is left, and the
\* store pool, the proxy listener and the Docker clients are closed.
C36_ShutdownStopsEverything ==
    lifespan.phase = "stopped" =>
        /\ lifespan.tasks = {}
        /\ lifespan.DB_POOL # "open"
        /\ lifespan.PROXY_SERVER = "closed"
        /\ lifespan.client # "open" /\ lifespan.api_client # "open"

\* The agent has an invocation that waits for its response, its job running.
Busy(agent) ==
    \E r \in Requests :
        /\ pc[r] \in {"sync_forward", "worker_forward"}
        /\ req[r].agent = agent
        /\ IsState(r, INV_STATE_RUNNING)

\* C37: a tick of the reaper stops no container of an agent that has an
\* invocation waiting for the agent's response.
C37_BusyAgentNotStopped ==
    [][_check_and_stop_idle_containers =>
          \A a \in called'.stopped : ~Busy(a)]_vars

\* C38: with no store operation failing, an invocation that got the agent's
\* answer ends completed exactly when the worker of the async mode completes
\* on that answer (status below 400 and a JSON body), and failed otherwise,
\* whether it ran in sync or in async mode: the mode does not change the
\* terminal state an answer gives.
C38_SameTerminalState ==
    \A r \in Requests :
        (Finished(r) /\ Forwarded(r) /\ IsTerminal(r) /\ dbFaults = 0) =>
            (IsState(r, INV_STATE_COMPLETED) <=>
                WorkerOutcome(answered[r]).kind = "response")

\* C39: proxy._is_allowed and egress.is_allowed give the same answer for one
\* agent, one allowlist and one URL.
C39_MatchersAgree ==
    decided # NoDecision => decided.proxy = decided.egress

\* C40: a POST /egress from an address that AGENT_IP_MAP binds to an agent is
\* decided by that agent's allowlist, whatever its X-Agent-Name header says:
\* 403 when the allowlist denies the URL, the upstream's answer (or 502) when
\* it allows it.
C40_KnownPeerDecidedByItsAllowlist ==
    (/\ called.op = "proxy_egress" /\ called.by_ip # ""
     /\ called.body.json /\ called.body.url # <<>>) =>
        LET allowed == is_allowed(called.by_ip, called.body.url)
        IN  /\ called.agent_name = called.by_ip
            /\ called.status \in (CASE allowed = "deny" -> {403}
                                    [] allowed = "raise" -> {500}
                                    [] OTHER -> {200, 502})
====
